---------------------------- MODULE Spec2Model ----------------------------
(***************************************************************************)
(* The pixelpipe cache of darktable (src/develop/pixelpipe_cache.c): a     *)
(* fixed table of cachelines keyed by a 64 bit hash, with an ageing        *)
(* replacement policy, bulk invalidation and a memory reclamation pass.    *)
(*                                                                         *)
(* The cache struct is one record `cache`; every public function of the    *)
(* file is an operator from the struct (and the call's arguments) to the   *)
(* struct after the call, built from the same loops the C code runs, and   *)
(* one action applies it.  While a call's result is with the caller, `last`*)
(* is that call with its arguments and results and `prev` is the struct as *)
(* it was when the call started; Return hands control back to the pipeline *)
(* driver, which makes the next call.                                      *)
(***************************************************************************)
EXTENDS Integers, FiniteSets, Sequences, TLC

VARIABLES
  cache,        \* dt_dev_pixelpipe_cache_t, pipe->cache
  mask_display, \* pipe->mask_display & (DISPLAY_PASSTHRU | DISPLAY_ANY) is set
  prev,         \* cache when the last call started
  last,         \* the last call: its name, arguments and results
  lastline,     \* the cacheline the most recent get handed out (-1: none yet)
  nops,         \* number of calls made so far
  ctx           \* what the hash functions read: the pipe's image, type, mask
                \* display and nodes, the focused module, the colorpicker's
                \* primary sample, the roi, and the signedness of char

vars == <<cache, mask_display, prev, last, lastline, nops, ctx>>

----------------------------------------------------------------------------
(* Bounds of the model *)

\* cache sizes (entries) range over 2 .. MaxEntries
MaxEntries == 3
\* full hashes requested range over 1 .. MaxHash and the all-ones value
MaxHash == 2
\* basic hashes requested range over 1 .. MaxBasic
MaxBasic == 1
\* buffer sizes requested range over 1 .. MaxSize
MaxSize == 2
\* the byte limit of a cache is 0 (none) or MemLimit
MemLimit == 2
\* calls made on one cache
MaxOps == 3
\* the reclamation runs: lines of the cache, its byte limit, and the calls
\* made on it
\* pipes of the hash runs have 1 .. MaxNodes nodes
MaxNodes == 2
\* image ids of the hash runs range over 1 .. MaxImage
MaxImage == 2
\* the roi struct of the hash runs is MaxRoiBytes bytes
MaxRoiBytes == 2
\* number of steps of a hash run
MaxHashOps == 3
\* pipes of the runs of basichash_prior have 1 .. MaxPriorNodes nodes
MaxPriorNodes == 3
\* number of steps of such a run
MaxPriorOps == 3
ReclaimEntries == 8
ReclaimHashes == 3
ReclaimLimit == 1
MaxReclaimOps == 9

----------------------------------------------------------------------------
(* Program constants *)

VERY_OLD_CACHE_WEIGHT == 1000
\* the marker _get_by_hash leaves on a line with a hash hit and a size mismatch
HIT_ERROR_WEIGHT == -1000000
\* (uint64_t)-1, the hash of an unassigned line
INVALID_HASH == -1
\* a null pointer; the other pointers are 1, 2, ...
NULL == 0

Lines(c) == 0 .. (c.entries - 1)
\* the addresses of buffers: a cache never holds more buffers than lines
Addrs(c) == 1 .. c.entries
Hashes == (1 .. MaxHash) \cup {INVALID_HASH}
BasicHashes == 1 .. MaxBasic
Sizes == 1 .. MaxSize

Max(a, b) == IF a > b THEN a ELSE b

\* C's integer division, which truncates toward zero
CDiv(a, b) == IF a >= 0 THEN a \div b ELSE -((-a) \div b)

\* addresses not held by any line
FreeAddrs(c) == Addrs(c) \ {c.data[k] : k \in Lines(c)}

Least(S) == CHOOSE x \in S : \A y \in S : x <= y

\* dt_alloc_align: a null pointer when the allocation fails, else the address
\* of a block no line holds (addresses are names, the least one stands for
\* any of them)
dt_alloc_align(c, ok) == IF ok THEN Least(FreeAddrs(c)) ELSE NULL

----------------------------------------------------------------------------
(* dt_dev_pixelpipe_cache_init *)

\* the state after the first loop: every line empty
InitEmpty(entries, limit) ==
  [entries   |-> entries,
   memlimit  |-> limit,
   allmem    |-> 0,
   queries   |-> 0,
   misses    |-> 0,
   data      |-> [k \in 0 .. (entries - 1) |-> NULL],
   size      |-> [k \in 0 .. (entries - 1) |-> 0],
   basichash |-> [k \in 0 .. (entries - 1) |-> INVALID_HASH],
   hash      |-> [k \in 0 .. (entries - 1) |-> INVALID_HASH],
   used      |-> [k \in 0 .. (entries - 1) |-> 1]]

\* (mutant) a failed allocation returns at once
RECURSIVE InitAllocLeak(_, _, _, _)
InitAllocLeak(c, size, fails, k) ==
  IF k = c.entries THEN [c |-> c, ok |-> TRUE]
  ELSE IF k = fails
       THEN [c |-> [c EXCEPT !.size[k] = size], ok |-> FALSE]
       ELSE InitAllocLeak([c EXCEPT !.size[k] = size,
                                    !.data[k] = k + 1,
                                    !.allmem = @ + size],
                          size, fails, k + 1)

\* the preallocation loop from line k on; `fails` is the line whose
\* allocation fails (entries: none does)
RECURSIVE InitAlloc(_, _, _, _)
InitAlloc(c, size, fails, k) ==
  IF k = c.entries THEN [c |-> c, ok |-> TRUE]
  ELSE IF k = fails
       THEN \* alloc_memory_fail: clear every line
            [c |-> [c EXCEPT !.data = [j \in Lines(c) |-> NULL],
                             !.size = [j \in Lines(c) |-> 0],
                             !.allmem = 0],
             ok |-> FALSE]
       ELSE InitAlloc([c EXCEPT !.size[k] = size,
                                !.data[k] = k + 1,
                                !.allmem = @ + size],
                      size, fails, k + 1)

dt_dev_pixelpipe_cache_init(entries, size, limit, fails) ==
  IF size = 0 THEN [c |-> InitEmpty(entries, limit), ok |-> TRUE]
  ELSE InitAlloc(InitEmpty(entries, limit), size, fails, 0)

----------------------------------------------------------------------------
(* Choosing a cacheline *)

RECURSIVE OldestScan(_, _, _, _)
OldestScan(c, k, weight, id) ==
  IF k = c.entries THEN id
  ELSE IF c.used[k] > weight
       THEN OldestScan(c, k + 1, c.used[k], k)
       ELSE OldestScan(c, k + 1, weight, id)

\* (mutant) the scan leaves the first line out
OldestButFirst(c) == OldestScan(c, 1, 1, 1)

_get_oldest_cacheline(c) == OldestScan(c, 0, 1, 0)

RECURSIVE OldestUsedScan(_, _, _, _, _)
OldestUsedScan(c, age, k, weight, id) ==
  IF k = c.entries THEN id
  ELSE IF (c.used[k] > weight) /\ (c.data[k] # NULL) /\ (c.used[k] > age)
       THEN OldestUsedScan(c, age, k + 1, c.used[k], k)
       ELSE OldestUsedScan(c, age, k + 1, weight, id)

\* (mutant) among lines of equal weight the scan keeps the last
OldestUsedLast(c, age) ==
  LET S == {k \in Lines(c) : (c.used[k] > 0) /\ (c.data[k] # NULL) /\ (c.used[k] > age)}
  IN  IF S = {} THEN -1
      ELSE CHOOSE k \in S :
             \A j \in S : c.used[j] < c.used[k] \/ (c.used[j] = c.used[k] /\ j <= k)

\* (mutant) a line must be two past the age, not one
OldestUsedOlder(c, age) == OldestUsedScan(c, age + 1, 0, 0, -1)

_get_oldest_used_cacheline(c, age) == OldestUsedScan(c, age, 0, 0, -1)

RECURSIVE OldestFreeScan(_, _, _, _)
OldestFreeScan(c, k, weight, id) ==
  IF k = c.entries THEN id
  ELSE IF (c.used[k] > weight) /\ (c.data[k] = NULL)
       THEN OldestFreeScan(c, k + 1, c.used[k], k)
       ELSE OldestFreeScan(c, k + 1, weight, id)

_get_oldest_free_cacheline(c) == OldestFreeScan(c, 0, 1, -1)

RECURSIVE HighgrpScan(_, _, _, _)
HighgrpScan(c, k, weight, id) ==
  IF k = c.entries THEN id
  ELSE IF (c.used[k] < 0) /\ (c.data[k] # NULL) /\ (c.used[k] > weight)
       THEN HighgrpScan(c, k + 1, c.used[k], k)
       ELSE HighgrpScan(c, k + 1, weight, id)

\* (mutant) the start weight without its sign
HighgrpStartNoSign(c) == CDiv(c.entries, 4)

\* the start weight is the C expression -cache->entries / 4
HighgrpStart(c) == CDiv(-c.entries, 4)

_get_oldest_highgrp_line(c) == HighgrpScan(c, 0, HighgrpStart(c), -1)

\* (mutant) a line that holds a buffer and is old enough goes first
CachelineUsedFirst(c) ==
  IF c.entries = 2 THEN c.queries % 2
  ELSE LET old_free == _get_oldest_free_cacheline(c)
           old_used == _get_oldest_used_cacheline(c, 2)
       IN  IF old_used >= 0 THEN old_used
           ELSE IF old_free >= 0 THEN old_free
           ELSE _get_oldest_cacheline(c)

_get_cacheline(c) ==
  IF c.entries = 2 THEN c.queries % 2
  ELSE LET old_free == _get_oldest_free_cacheline(c)
           old_used == _get_oldest_used_cacheline(c, 2)
       IN  IF old_free >= 0 THEN old_free
           ELSE IF old_used >= 0 THEN old_used
           ELSE _get_oldest_cacheline(c)

----------------------------------------------------------------------------
(* dt_dev_pixelpipe_cache_get *)

\* (mutant) the line is marked and keeps its hashes
HitErrorKeepHash(c, k) ==
  [c EXCEPT !.used[k] = HIT_ERROR_WEIGHT]

\* a hash hit with another size: the line is marked, its buffer is kept
HitError(c, k) ==
  [c EXCEPT !.hash[k] = INVALID_HASH,
            !.basichash[k] = INVALID_HASH,
            !.used[k] = HIT_ERROR_WEIGHT]

\* (mutant) a hit that leaves the line as an ordinary fresh one
HitWeightFresh(c) == 0

\* (mutant) a hit that pins the line one below -N
HitWeightBelow(c) == -c.entries - 1

\* a proper hit keeps the line as important
HitWeight(c) == -c.entries

RECURSIVE GetByHashScan(_, _, _, _)
GetByHashScan(c, hash, size, k) ==
  IF k = c.entries THEN [c |-> c, line |-> -1]
  ELSE IF c.hash[k] = hash
       THEN IF c.size[k] # size
            THEN GetByHashScan(HitError(c, k), hash, size, k + 1)
            ELSE [c |-> [c EXCEPT !.used[k] = HitWeight(c)], line |-> k]
       ELSE GetByHashScan(c, hash, size, k + 1)

\* line: the line that was hit, -1 when none was
_get_by_hash(c, hash, size) == GetByHashScan(c, hash, size, 0)

\* (mutant) the ageing without the query counter
AgeOnly(c) ==
  [c EXCEPT !.used = [k \in Lines(c) |-> c.used[k] + 1]]

\* (mutant) pinned lines do not age
AgeUnpinned(c) ==
  [c EXCEPT !.queries = @ + 1,
            !.used = [k \in Lines(c) |->
                        IF c.used[k] < 0 THEN c.used[k] ELSE c.used[k] + 1]]

\* queries++ and the ageing of every line
AgeAll(c) ==
  [c EXCEPT !.queries = @ + 1,
            !.used = [k \in Lines(c) |-> c.used[k] + 1]]

\* (mutant) every cache resizes to the exact size
NeedsAllocExact(c, cline, size) == c.size[cline] # size

\* (mutant) every cache only grows
NeedsAllocGrow(c, cline, size) == c.size[cline] < size

\* whether the chosen line's buffer is freed and allocated anew
NeedsAlloc(c, cline, size) ==
  \/ (c.entries = 2) /\ (c.size[cline] < size)
  \/ (c.entries > 2) /\ (c.size[cline] # size)

\* (mutant) a failed allocation leaves the size of the line as it was
ReallocKeepSize(c, cline, size, ok) ==
  LET freed == [c EXCEPT !.data[cline] = NULL, !.allmem = @ - c.size[cline]]
      p == dt_alloc_align(freed, ok)
  IN  IF p # NULL
      THEN [freed EXCEPT !.data[cline] = p,
                         !.size[cline] = size,
                         !.allmem = @ + size]
      ELSE freed

\* dt_free_align and dt_alloc_align on line cline; ok is whether the
\* allocation succeeds
Realloc(c, cline, size, ok) ==
  LET freed == [c EXCEPT !.data[cline] = NULL, !.allmem = @ - c.size[cline]]
      p == dt_alloc_align(freed, ok)
  IN  IF p # NULL
      THEN [freed EXCEPT !.data[cline] = p,
                         !.size[cline] = size,
                         !.allmem = @ + size]
      ELSE [freed EXCEPT !.size[cline] = 0]

\* (mutant) an important line is pinned whatever the mask display
MissWeightPinFirst(c, avoiding, important) ==
  IF important THEN -c.entries
  ELSE IF avoiding THEN VERY_OLD_CACHE_WEIGHT ELSE 0

\* the weight a line gets when it is handed out on a miss
MissWeight(c, avoiding, important) ==
  IF avoiding THEN VERY_OLD_CACHE_WEIGHT
  ELSE IF important THEN -c.entries ELSE 0

\* the part of the function after the lookup found no hit
GetMiss(c, avoiding, basichash, hash, size, important, ok) ==
  LET cline == _get_cacheline(c)
      newdata == NeedsAlloc(c, cline, size)
      c1 == IF newdata THEN Realloc(c, cline, size, ok) ELSE c
      c2 == [c1 EXCEPT !.basichash[cline] = basichash,
                       !.hash[cline] = hash,
                       !.used[cline] = MissWeight(c, avoiding, important),
                       !.misses = @ + 1]
  IN  [c |-> c2, ret |-> TRUE, data |-> c2.data[cline], line |-> cline,
       hit |-> FALSE, newdata |-> newdata]

\* (mutant) a cache of two lines is looked up too
LookupAlways(c, hash, size) == _get_by_hash(c, hash, size)

\* the lookup: none for a cache of two lines
Lookup(c, hash, size) ==
  IF c.entries > 2 THEN _get_by_hash(c, hash, size)
  ELSE [c |-> c, line |-> -1]

\* ret: the function's return value; data: *data; line: the line handed
\* out; hit: whether the lookup hit; newdata: whether a buffer was allocated
dt_dev_pixelpipe_cache_get(c, avoiding, basichash, hash, size, important, ok) ==
  LET found == Lookup(AgeAll(c), hash, size)
  IN  IF found.line >= 0
      THEN [c |-> found.c, ret |-> FALSE, data |-> found.c.data[found.line],
            line |-> found.line, hit |-> TRUE, newdata |-> FALSE]
      ELSE GetMiss(found.c, avoiding, basichash, hash, size, important, ok)

\* whether the call allocates: not on a hit, nor when the chosen line fits
GetAllocates(c, hash, size) ==
  LET found == Lookup(AgeAll(c), hash, size)
  IN  found.line < 0 /\ NeedsAlloc(found.c, _get_cacheline(found.c), size)

----------------------------------------------------------------------------
(* dt_dev_pixelpipe_cache_flush *)

\* (mutant) counters reset to zero
FlushCounterZero(c) == 0

FlushCounter(c) == c.queries % 2

\* (mutant) a flush that leaves the ages alone
FlushKeepAges(c) ==
  [c EXCEPT !.queries = FlushCounter(c),
            !.misses = FlushCounter(c),
            !.basichash = [k \in Lines(c) |-> INVALID_HASH],
            !.hash = [k \in Lines(c) |-> INVALID_HASH]]

dt_dev_pixelpipe_cache_flush(c) ==
  [c EXCEPT !.queries = FlushCounter(c),
            !.misses = FlushCounter(c),
            !.basichash = [k \in Lines(c) |-> INVALID_HASH],
            !.hash = [k \in Lines(c) |-> INVALID_HASH],
            !.used = [k \in Lines(c) |-> VERY_OLD_CACHE_WEIGHT]]

----------------------------------------------------------------------------
(* dt_dev_pixelpipe_cache_flush_all_but, _reweight, _invalidate, _available *)

\* (mutant) the lines are kept by their full hash
FlushAllButByHash(c, basichash) ==
  [c EXCEPT !.basichash = [k \in Lines(c) |->
                IF c.hash[k] = basichash THEN @[k] ELSE INVALID_HASH],
            !.hash = [k \in Lines(c) |->
                IF c.hash[k] = basichash THEN @[k] ELSE INVALID_HASH],
            !.used = [k \in Lines(c) |->
                IF c.hash[k] = basichash THEN @[k] ELSE VERY_OLD_CACHE_WEIGHT]]

dt_dev_pixelpipe_cache_flush_all_but(c, basichash) ==
  [c EXCEPT !.basichash = [k \in Lines(c) |->
                IF c.basichash[k] = basichash THEN @[k] ELSE INVALID_HASH],
            !.hash = [k \in Lines(c) |->
                IF c.basichash[k] = basichash THEN @[k] ELSE INVALID_HASH],
            !.used = [k \in Lines(c) |->
                IF c.basichash[k] = basichash THEN @[k] ELSE VERY_OLD_CACHE_WEIGHT]]

\* (mutant) the line is found by its pointer alone
ReweightByPointer(c, avoiding, data, size) ==
  IF avoiding THEN c
  ELSE [c EXCEPT !.used = [k \in Lines(c) |->
                    IF c.data[k] = data THEN -c.entries ELSE @[k]]]

dt_dev_pixelpipe_cache_reweight(c, avoiding, data, size) ==
  IF avoiding THEN c
  ELSE [c EXCEPT !.used = [k \in Lines(c) |->
                    IF (c.data[k] = data) /\ (size = c.size[k])
                    THEN -c.entries ELSE @[k]]]

\* (mutant) a pinned line keeps its hashes
InvalidateUnpinned(c, data) ==
  [c EXCEPT !.basichash = [k \in Lines(c) |->
                IF c.data[k] = data /\ c.used[k] >= 0 THEN INVALID_HASH ELSE @[k]],
            !.hash = [k \in Lines(c) |->
                IF c.data[k] = data /\ c.used[k] >= 0 THEN INVALID_HASH ELSE @[k]],
            !.used = [k \in Lines(c) |->
                IF c.data[k] = data /\ c.used[k] >= 0
                THEN VERY_OLD_CACHE_WEIGHT ELSE @[k]]]

dt_dev_pixelpipe_cache_invalidate(c, data) ==
  [c EXCEPT !.basichash = [k \in Lines(c) |->
                IF c.data[k] = data THEN INVALID_HASH ELSE @[k]],
            !.hash = [k \in Lines(c) |->
                IF c.data[k] = data THEN INVALID_HASH ELSE @[k]],
            !.used = [k \in Lines(c) |->
                IF c.data[k] = data THEN VERY_OLD_CACHE_WEIGHT ELSE @[k]]]

\* (mutant) the sizes are not compared
AvailableByHash(c, hash, size) ==
  \E k \in Lines(c) : c.hash[k] = hash

dt_dev_pixelpipe_cache_available(c, hash, size) ==
  \E k \in Lines(c) : (c.hash[k] = hash) /\ (c.size[k] = size)

----------------------------------------------------------------------------
(* dt_dev_pixelpipe_cache_checkmem *)

\* (mutant) the line keeps its recorded size
FreeKeepSize(c, k) ==
  [c EXCEPT !.allmem = @ - c.size[k],
            !.data[k] = NULL,
            !.hash[k] = INVALID_HASH,
            !.basichash[k] = INVALID_HASH,
            !.used[k] = VERY_OLD_CACHE_WEIGHT]

_free_cacheline(c, k) ==
  [c EXCEPT !.allmem = @ - c.size[k],
            !.size[k] = 0,
            !.data[k] = NULL,
            !.hash[k] = INVALID_HASH,
            !.basichash[k] = INVALID_HASH,
            !.used[k] = VERY_OLD_CACHE_WEIGHT]

\* (mutant) the comparison off by one
IsHitErrorOrPinned(c, k) == c.used[k] <= -c.entries

\* a line reported with a hit error
IsHitError(c, k) == c.used[k] < -c.entries

\* the first loop: always remove the lines reported with a hit error
RECURSIVE FreeBad(_, _)
FreeBad(c, k) ==
  IF k = c.entries THEN c
  ELSE IF IsHitError(c, k)
       THEN FreeBad(_free_cacheline(c, k), k + 1)
       ELSE FreeBad(c, k + 1)

\* (mutant) every line past age zero counts as unimportant
OldLimitZero(c) == 0

\* the age a line must have passed to be released as unimportant
OldLimit(c) == Max(2, c.entries \div 8)

\* (mutant) an if in place of the while
FreeLowOnce(c) ==
  LET oldest == _get_oldest_used_cacheline(c, OldLimit(c))
  IN  IF (c.memlimit < c.allmem) /\ (oldest >= 0)
      THEN _free_cacheline(c, oldest)
      ELSE c

\* release unimportant lines first
RECURSIVE FreeLow(_)
FreeLow(c) ==
  LET oldest == _get_oldest_used_cacheline(c, OldLimit(c))
  IN  IF (c.memlimit < c.allmem) /\ (oldest >= 0)
      THEN FreeLow(_free_cacheline(c, oldest))
      ELSE c

RECURSIVE FreeHigh(_)
FreeHigh(c) ==
  LET oldest == _get_oldest_highgrp_line(c)
  IN  IF (c.memlimit < c.allmem) /\ (oldest # -1)
      THEN FreeHigh(_free_cacheline(c, oldest))
      ELSE c

\* bad_grp: the calls of _free_cacheline the first loop makes from line k on
RECURSIVE BadGrp(_, _)
BadGrp(c, k) ==
  IF k = c.entries THEN 0
  ELSE IF IsHitError(c, k)
       THEN 1 + BadGrp(_free_cacheline(c, k), k + 1)
       ELSE BadGrp(c, k + 1)

\* low_grp: the passes of the first while loop
RECURSIVE LowGrp(_)
LowGrp(c) ==
  LET oldest == _get_oldest_used_cacheline(c, OldLimit(c))
  IN  IF (c.memlimit < c.allmem) /\ (oldest >= 0)
      THEN 1 + LowGrp(_free_cacheline(c, oldest))
      ELSE 0

\* high_grp: the passes of the second while loop
RECURSIVE HighGrp(_)
HighGrp(c) ==
  LET oldest == _get_oldest_highgrp_line(c)
  IN  IF (c.memlimit < c.allmem) /\ (oldest # -1)
      THEN 1 + HighGrp(_free_cacheline(c, oldest))
      ELSE 0

\* the three counts of one call of dt_dev_pixelpipe_cache_checkmem
CheckmemGroups(c) ==
  IF c.entries = 2 THEN [bad |-> 0, low |-> 0, high |-> 0]
  ELSE LET bad == FreeBad(c, 0)
       IN  [bad  |-> BadGrp(c, 0),
            low  |-> IF c.memlimit # 0 THEN LowGrp(bad) ELSE 0,
            high |-> IF c.memlimit # 0 THEN HighGrp(FreeLow(bad)) ELSE 0]

\* (mutant) the cleanup also runs on a cache of two lines
CheckmemAnyEntries(c) ==
  LET bad == FreeBad(c, 0)
  IN  IF c.memlimit # 0 THEN FreeHigh(FreeLow(bad)) ELSE bad

\* (mutant) the important lines are released first
CheckmemHighFirst(c) ==
  IF c.entries = 2 THEN c
  ELSE LET bad == FreeBad(c, 0)
       IN  IF c.memlimit # 0 THEN FreeLow(FreeHigh(bad)) ELSE bad

dt_dev_pixelpipe_cache_checkmem(c) ==
  IF c.entries = 2 THEN c
  ELSE LET bad == FreeBad(c, 0)
       IN  IF c.memlimit # 0 THEN FreeHigh(FreeLow(bad)) ELSE bad

----------------------------------------------------------------------------
(* The hash functions.  A uint64_t is four 16 bit limbs, least significant *)
(* first; a struct that the code reads as chars is the sequence of its     *)
(* bytes, each 0 .. 255.                                                   *)

\* the base of a limb
Limb == 65536

\* the uint64_t of a number below 2^31
U64(n) == <<n % Limb, (n \div Limb) % Limb, 0, 0>>

\* (hash << 5) + hash, modulo 2^64
Mul33(h) ==
  LET t1 == h[1] * 33
      t2 == h[2] * 33 + (t1 \div Limb)
      t3 == h[3] * 33 + (t2 \div Limb)
      t4 == h[4] * 33 + (t3 \div Limb)
  IN  <<t1 % Limb, t2 % Limb, t3 % Limb, t4 % Limb>>

\* a ^ b on naturals
RECURSIVE XorNat(_, _)
XorNat(a, b) ==
  IF a = 0 THEN b
  ELSE IF b = 0 THEN a
  ELSE ((a + b) % 2) + 2 * XorNat(a \div 2, b \div 2)

\* a ^ b on uint64_t
XorU64(a, b) ==
  <<XorNat(a[1], b[1]), XorNat(a[2], b[2]), XorNat(a[3], b[3]), XorNat(a[4], b[4])>>

\* h is a value of a uint64_t variable
IsU64(h) == \A i \in 1 .. 4 : h[i] \in 0 .. (Limb - 1)

\* the char read from a byte, converted to uint64_t: a signed char above
\* 127 is negative and converts with its sign extended
CharU64(byte, signed_char) ==
  IF signed_char /\ byte >= 128
  THEN <<(Limb - 256) + byte, Limb - 1, Limb - 1, Limb - 1>>
  ELSE <<byte, 0, 0, 0>>

\* one step of the hash: ((hash << 5) + hash) ^ value
Fold(h, v) == XorU64(Mul33(h), v)

\* the step over the bytes of a struct, from byte i on; each pass of the
\* loop stores its value in the uint64_t hash before the next one starts
RECURSIVE FoldBytes(_, _, _, _)
FoldBytes(h, bytes, signed_char, i) ==
  IF i > Len(bytes) THEN h
  ELSE LET hash == Fold(h, CharU64(bytes[i], signed_char))
       IN  CASE IsU64(hash) -> FoldBytes(hash, bytes, signed_char, i + 1)

\* the bytes of an int that is not negative, least significant first
IntBytes(n) ==
  <<n % 256, (n \div 256) % 256, (n \div Limb) % 256, n \div (256 * Limb)>>

\* hashing_pipemode read as chars
PipemodeBytes(c) ==
  IntBytes(c.imgid) \o IntBytes(c.type) \o IntBytes(c.mask_display)

\* node k is left out of the hash: a module has the focus, it is not node
\* k's module, and its tags filter meets the tags of node k's module
Bypassed(c, k) ==
  /\ c.gui_module # 0
  /\ c.gui_module # k
  /\ (c.nodes[c.gui_module].filter \cap c.nodes[k].tags) # {}

\* (mutant) the sample in use is always the box
PickerBytesBox(c) ==
  IF c.picker.size = "none" THEN <<>> ELSE c.picker.box

\* the bytes of the primary sample that a picking node adds: the box, the
\* point, or nothing for another size
PickerBytes(c) ==
  IF c.picker.size = "box" THEN c.picker.box
  ELSE IF c.picker.size = "point" THEN c.picker.point
  ELSE <<>>

\* the hash after node k has been looked at
NodeStep(c, h, k) ==
  IF Bypassed(c, k) THEN h
  ELSE LET h1 == Fold(h, c.nodes[k].hash)
       IN  IF c.nodes[k].pick
           THEN FoldBytes(h1, PickerBytes(c), c.signed_char, 1)
           ELSE h1

\* (mutant) the loop runs over every node of the pipe
RECURSIVE NodesLoopAll(_, _, _, _)
NodesLoopAll(c, h, k, module) ==
  IF k > Len(c.nodes) THEN h
  ELSE LET hash == NodeStep(c, h, k)
       IN  CASE IsU64(hash) -> NodesLoopAll(c, hash, k + 1, module)

\* the loop over the first `module` nodes of the pipe, from node k on
\* (nodes are counted from 1, so node k is pieces number k - 1)
RECURSIVE NodesLoop(_, _, _, _)
NodesLoop(c, h, k, module) ==
  IF k > module \/ k > Len(c.nodes) THEN h
  ELSE LET hash == NodeStep(c, h, k)
       IN  CASE IsU64(hash) -> NodesLoop(c, hash, k + 1, module)

dt_dev_pixelpipe_cache_basichash(c, module) ==
  NodesLoop(c, FoldBytes(U64(5381), PipemodeBytes(c), c.signed_char, 1), 1, module)

\* basichash and hash as the function stores them
dt_dev_pixelpipe_cache_fullhash(c, module) ==
  LET basichash == dt_dev_pixelpipe_cache_basichash(c, module)
  IN  [basichash |-> basichash,
       hash |-> FoldBytes(basichash, c.roi, c.signed_char, 1)]

dt_dev_pixelpipe_cache_hash(c, module) ==
  dt_dev_pixelpipe_cache_fullhash(c, module).hash

\* (mutant) every node the focus does not leave out counts
PriorCountsAny(c, k) == ~Bypassed(c, k)

\* node k counts as the prior one: its piece is enabled and the focus does
\* not leave it out
PriorCounts(c, k) == c.nodes[k].enabled /\ ~Bypassed(c, k)

\* the loop of dt_dev_pixelpipe_cache_basichash_prior from k on; module k
\* of pipe->iop belongs to node k of pipe->nodes, and `module` is the
\* number of the module asked for (a number no node has: a module that is
\* not in the pipe)
RECURSIVE PriorScan(_, _, _, _)
PriorScan(c, module, k, prior) ==
  IF k > Len(c.nodes) THEN prior
  ELSE IF module = k THEN prior
  ELSE PriorScan(c, module, k + 1, IF PriorCounts(c, k) THEN k ELSE prior)

\* (uint64_t)-1, returned when there is no prior node
dt_dev_pixelpipe_cache_basichash_prior(c, module) ==
  LET prior == PriorScan(c, module, 1, -1)
  IN  IF prior >= 0 THEN dt_dev_pixelpipe_cache_basichash(c, prior)
      ELSE <<Limb - 1, Limb - 1, Limb - 1, Limb - 1>>

\* sizeof(float)
SizeofFloat == 4

\* a struct of n bytes, all 0 but the first
Bytes(first, n) == [i \in 1 .. n |-> IF i = 1 THEN first ELSE 0]

\* the context while the cache is at work: the hash functions are not
\* called
IdleContext ==
  [signed_char  |-> TRUE,
   imgid        |-> 1,
   type         |-> 0,
   mask_display |-> 0,
   nodes        |-> <<>>,
   gui_module   |-> 0,
   picker       |-> [size  |-> "none",
                     box   |-> Bytes(0, SizeofFloat * 4),
                     point |-> Bytes(0, SizeofFloat * 2)],
   roi          |-> <<>>]

----------------------------------------------------------------------------
(* The calls *)

Idle == [op |-> "idle"]

Init ==
  /\ \E entries \in 2 .. MaxEntries, size \in {0} \cup Sizes,
        limit \in {0, MemLimit}, fails \in 0 .. MaxEntries :
       LET failing == IF size > 0 /\ fails < entries THEN fails ELSE entries
           r == dt_dev_pixelpipe_cache_init(entries, size, limit, failing)
       IN  /\ cache = r.c
           /\ prev = r.c
           /\ last = [op |-> "init", size |-> size, ok |-> r.ok,
                       fails |-> failing]
  /\ mask_display = FALSE
  /\ lastline = -1
  /\ nops = 0
  /\ ctx = IdleContext

\* the call has returned and the driver goes on
Return ==
  /\ last.op # "idle"
  /\ last' = Idle
  /\ prev' = cache
  /\ UNCHANGED <<cache, mask_display, lastline, nops, ctx>>

CallWithin(max) ==
  /\ last.op = "idle" /\ nops < max /\ nops' = nops + 1 /\ prev' = cache
  /\ ctx' = ctx

Call == CallWithin(MaxOps)

\* a get with its arguments drawn from the given sets
GetWith(hashes, basichashes, sizes, importants, oks) ==
  /\ \E hash \in hashes, basichash \in basichashes, size \in sizes,
        important \in importants, ok \in oks :
       /\ ok \/ GetAllocates(cache, hash, size)
       /\ LET r == dt_dev_pixelpipe_cache_get(cache, mask_display, basichash,
                                              hash, size, important, ok)
          IN  /\ cache' = r.c
              /\ last' = [op |-> "get", hash |-> hash, basichash |-> basichash,
                          size |-> size, important |-> important,
                          avoiding |-> mask_display, ok |-> ok, ret |-> r.ret,
                          data |-> r.data, line |-> r.line, hit |-> r.hit,
                          newdata |-> r.newdata, before |-> lastline]
              /\ lastline' = r.line
  /\ UNCHANGED mask_display

\* a get that may or may not ask for an important line
GetFrom(hashes, basichashes, sizes, oks) ==
  GetWith(hashes, basichashes, sizes, BOOLEAN, oks)

Get ==
  /\ Call
  /\ GetFrom(Hashes, BasicHashes, Sizes, BOOLEAN)

Flush ==
  /\ Call
  /\ cache' = dt_dev_pixelpipe_cache_flush(cache)
  /\ last' = [op |-> "flush"]
  /\ UNCHANGED <<mask_display, lastline>>

FlushAllBut ==
  /\ Call
  /\ \E basichash \in BasicHashes \cup {INVALID_HASH} :
       /\ cache' = dt_dev_pixelpipe_cache_flush_all_but(cache, basichash)
       /\ last' = [op |-> "flush_all_but", basichash |-> basichash]
  /\ UNCHANGED <<mask_display, lastline>>

Reweight ==
  /\ Call
  /\ \E data \in {NULL} \cup Addrs(cache), size \in {0} \cup Sizes :
       /\ cache' = dt_dev_pixelpipe_cache_reweight(cache, mask_display, data, size)
       /\ last' = [op |-> "reweight", data |-> data, size |-> size,
                   avoiding |-> mask_display]
  /\ UNCHANGED <<mask_display, lastline>>

Invalidate ==
  /\ Call
  /\ \E data \in {NULL} \cup Addrs(cache) :
       /\ cache' = dt_dev_pixelpipe_cache_invalidate(cache, data)
       /\ last' = [op |-> "invalidate", data |-> data]
  /\ UNCHANGED <<mask_display, lastline>>

Available ==
  /\ Call
  /\ \E hash \in Hashes, size \in {0} \cup Sizes :
       last' = [op |-> "available", hash |-> hash, size |-> size,
                ret |-> dt_dev_pixelpipe_cache_available(cache, hash, size)]
  /\ UNCHANGED <<cache, mask_display, lastline>>

Checkmem ==
  /\ Call
  /\ cache' = dt_dev_pixelpipe_cache_checkmem(cache)
  /\ last' = [op |-> "checkmem"]
  /\ UNCHANGED <<mask_display, lastline>>

\* the driver switches the mask display of the pipe on or off
SetMaskDisplay ==
  /\ last.op = "idle"
  /\ nops < MaxOps
  /\ mask_display' = ~mask_display
  /\ UNCHANGED <<cache, prev, last, lastline, nops, ctx>>

Next ==
  \/ Get
  \/ Flush
  \/ FlushAllBut
  \/ Reweight
  \/ Invalidate
  \/ Available
  \/ Checkmem
  \/ SetMaskDisplay
  \/ Return

Spec == Init /\ [][Next]_vars

----------------------------------------------------------------------------
(* Reclamation runs: gets and checkmem calls on a cache with a byte limit  *)
(* that is empty at first.  A cache of MaxEntries lines takes every get of *)
(* Spec; a cache of ReclaimEntries lines takes gets for ReclaimHashes      *)
(* hashes and buffers of one size, whose allocations succeed, in runs long *)
(* enough for a pinned line to age back to -1.                             *)

InitReclaim ==
  /\ \E entries \in {MaxEntries, ReclaimEntries} :
       LET r == dt_dev_pixelpipe_cache_init(entries, 0, ReclaimLimit, entries)
       IN  /\ cache = r.c
           /\ prev = r.c
           /\ last = [op |-> "init", size |-> 0, ok |-> r.ok]
  /\ mask_display = FALSE
  /\ lastline = -1
  /\ nops = 0
  /\ ctx = IdleContext

ReclaimOps == IF cache.entries = ReclaimEntries THEN MaxReclaimOps ELSE MaxOps

GetReclaim ==
  /\ CallWithin(ReclaimOps)
  /\ IF cache.entries = ReclaimEntries
     THEN GetFrom(1 .. ReclaimHashes, BasicHashes, {MaxSize}, {TRUE})
     ELSE GetFrom(Hashes, BasicHashes, Sizes, BOOLEAN)

CheckmemReclaim ==
  /\ CallWithin(ReclaimOps)
  /\ cache' = dt_dev_pixelpipe_cache_checkmem(cache)
  /\ last' = [op |-> "checkmem"]
  /\ UNCHANGED <<mask_display, lastline>>

NextReclaim ==
  \/ GetReclaim
  \/ CheckmemReclaim
  \/ Return

SpecReclaim == InitReclaim /\ [][NextReclaim]_vars

----------------------------------------------------------------------------
(* Tier runs: the reclamation runs on a cache of ReclaimEntries lines with *)
(* no byte limit, with one that no buffer fits in, or with one that two    *)
(* buffers fit in, so that releasing the unimportant lines can be enough.  *)

\* the byte limit of a tier run
TierLimit == 2 * MaxSize

InitTiers ==
  /\ \E limit \in {0, ReclaimLimit, TierLimit} :
       LET r == dt_dev_pixelpipe_cache_init(ReclaimEntries, 0, limit, ReclaimEntries)
       IN  /\ cache = r.c
           /\ prev = r.c
           /\ last = [op |-> "init", size |-> 0, ok |-> r.ok,
                       fails |-> ReclaimEntries]
  /\ mask_display = FALSE
  /\ lastline = -1
  /\ nops = 0
  /\ ctx = IdleContext

SpecTiers == InitTiers /\ [][NextReclaim]_vars

----------------------------------------------------------------------------
(* Pinning runs: gets for assigned hashes, one hash per line, whose        *)
(* allocations succeed, on a cache of MaxEntries lines without a byte      *)
(* limit that is empty at first; a run is long enough to fill every line   *)
(* and ask once more.                                                      *)

InitPinned ==
  /\ LET r == dt_dev_pixelpipe_cache_init(MaxEntries, 0, 0, MaxEntries)
     IN  /\ cache = r.c
         /\ prev = r.c
         /\ last = [op |-> "init", size |-> 0, ok |-> r.ok]
  /\ mask_display = FALSE
  /\ lastline = -1
  /\ nops = 0
  /\ ctx = IdleContext

GetPinned ==
  /\ CallWithin(MaxEntries + 1)
  /\ GetFrom(1 .. MaxEntries, BasicHashes, Sizes, {TRUE})

NextPinned ==
  \/ GetPinned
  \/ Return

SpecPinned == InitPinned /\ [][NextPinned]_vars

----------------------------------------------------------------------------
(* Long runs: nothing but gets, for one more hash than there are lines and *)
(* buffers of one size, whose allocations succeed, on a cache of           *)
(* MaxEntries lines without a byte limit that is empty at first, mask      *)
(* display off; a run is long enough to pin every line, hit the first and  *)
(* ask for a new hash.                                                     *)

InitLong ==
  /\ LET r == dt_dev_pixelpipe_cache_init(MaxEntries, 0, 0, MaxEntries)
     IN  /\ cache = r.c
         /\ prev = r.c
         /\ last = [op |-> "init", size |-> 0, ok |-> r.ok, fails |-> MaxEntries]
  /\ mask_display = FALSE
  /\ lastline = -1
  /\ nops = 0
  /\ ctx = IdleContext

\* the number of gets of a long run
LongOps == MaxEntries + 2

GetLong ==
  /\ CallWithin(LongOps)
  /\ GetFrom(1 .. (MaxEntries + 1), BasicHashes, {MaxSize}, {TRUE})

NextLong ==
  \/ GetLong
  \/ Return

SpecLong == InitLong /\ [][NextLong]_vars

----------------------------------------------------------------------------
(* Round trips: gets for lines that are not important, with one basic hash *)
(* per line, whose allocations succeed, then flush_all_but and available calls, on a cache without a   *)
(* byte limit that is empty at first; a run is long enough to fill every   *)
(* line and flush.                                                         *)

InitRoundTrip ==
  /\ \E entries \in 2 .. MaxEntries :
       LET r == dt_dev_pixelpipe_cache_init(entries, 0, 0, entries)
       IN  /\ cache = r.c
           /\ prev = r.c
           /\ last = [op |-> "init", size |-> 0, ok |-> r.ok]
  /\ mask_display = FALSE
  /\ lastline = -1
  /\ nops = 0
  /\ ctx = IdleContext

\* one assigned hash per line, and the sentinel
RoundTripHashes == (1 .. MaxEntries) \cup {INVALID_HASH}

GetRoundTrip ==
  /\ CallWithin(MaxEntries + 1)
  /\ GetWith(RoundTripHashes, 1 .. MaxEntries, Sizes, {FALSE}, {TRUE})

FlushAllButRoundTrip ==
  /\ CallWithin(MaxEntries + 1)
  /\ \E basichash \in (1 .. MaxEntries) \cup {INVALID_HASH} :
       /\ cache' = dt_dev_pixelpipe_cache_flush_all_but(cache, basichash)
       /\ last' = [op |-> "flush_all_but", basichash |-> basichash]
  /\ UNCHANGED <<mask_display, lastline>>

AvailableRoundTrip ==
  /\ CallWithin(MaxEntries + 1)
  /\ \E hash \in RoundTripHashes, size \in {0} \cup Sizes :
       last' = [op |-> "available", hash |-> hash, size |-> size,
                ret |-> dt_dev_pixelpipe_cache_available(cache, hash, size)]
  /\ UNCHANGED <<cache, mask_display, lastline>>

NextRoundTrip ==
  \/ GetRoundTrip
  \/ FlushAllButRoundTrip
  \/ AvailableRoundTrip
  \/ Return

SpecRoundTrip == InitRoundTrip /\ [][NextRoundTrip]_vars

----------------------------------------------------------------------------
(* The end-to-end scenario on a fresh cache of N lines without a byte      *)
(* limit, mask display off, allocations succeeding: a get for a first hash *)
(* that is not important, the same get again, an important get for a new   *)
(* hash for each of the N - 1 other lines, and a get for one more new      *)
(* hash.  The sizes are free, as is the importance of the last get.        *)

InitScenario ==
  /\ \E entries \in {MaxEntries, MaxEntries + 1} :
       LET r == dt_dev_pixelpipe_cache_init(entries, 0, 0, entries)
       IN  /\ cache = r.c
           /\ prev = r.c
           /\ last = [op |-> "init", size |-> 0, ok |-> r.ok, fails |-> entries]
  /\ mask_display = FALSE
  /\ lastline = -1
  /\ nops = 0
  /\ ctx = IdleContext

\* the number of gets of the scenario
ScenarioLength(c) == c.entries + 2

\* the hash of the n-th get: the first hash twice, then a new one each time
ScenarioHash(n) == IF n <= 2 THEN 1 ELSE n - 1

GetScenario ==
  /\ CallWithin(ScenarioLength(cache))
  /\ LET n == nops + 1
     IN  GetWith({ScenarioHash(n)}, BasicHashes,
                 IF n = 2 THEN {cache.size[lastline]} ELSE Sizes,
                 IF n <= 2 THEN {FALSE}
                 ELSE IF n < ScenarioLength(cache) THEN {TRUE} ELSE BOOLEAN,
                 {TRUE})

NextScenario ==
  \/ GetScenario
  \/ Return

SpecScenario == InitScenario /\ [][NextScenario]_vars

----------------------------------------------------------------------------
(* Hash runs: calls of dt_dev_pixelpipe_cache_fullhash on a pipe, and      *)
(* between them the steps of the application that change what the function *)
(* reads: a node's hash, a node's colorpicker request, the focused module,  *)
(* the colorpicker's primary sample, the roi, the image and the mask        *)
(* display.  The cache is not used.                                         *)

AllOnes == <<Limb - 1, Limb - 1, Limb - 1, Limb - 1>>

\* the piece->hash values of the runs
NodeHashes == {U64(0), U64(7), AllOnes}

\* the first byte of a sample: one char that is not negative, one that is
\* when char is signed
SampleBytes == {0, 200}

Pickers ==
  [size  : {"box", "point", "none"},
   box   : {Bytes(b, SizeofFloat * 4) : b \in SampleBytes},
   point : {Bytes(b, SizeofFloat * 2) : b \in SampleBytes}]

\* the roi structs of the runs: their first byte is 0 or 1, their second
\* byte 0 or 97, the other bytes are 0.  A change of the first byte moves
\* the hash after it by 33, which the second byte can undo.
Rois == {<<a>> \o Bytes(b, MaxRoiBytes - 1) : a \in {0, 1}, b \in {0, 97}}

\* node k of a pipe: modules with an odd number carry the tag "a" and
\* filter the tag "b", the others the other way round
Node(k, hash, pick) ==
  [hash   |-> hash,
   pick   |-> pick,
   enabled |-> TRUE,
   tags   |-> IF k % 2 = 1 THEN {"a"} ELSE {"b"},
   filter |-> IF k % 2 = 1 THEN {"b"} ELSE {"a"}]

InitHash ==
  /\ \E signed_char \in BOOLEAN, len \in 1 .. MaxNodes,
        size \in {"box", "point", "none"} :
       \E picks \in [1 .. len -> BOOLEAN], gui_module \in 0 .. len :
          ctx = [IdleContext EXCEPT
                   !.signed_char = signed_char,
                   !.nodes = [k \in 1 .. len |-> Node(k, U64(0), picks[k])],
                   !.gui_module = gui_module,
                   !.picker.size = size,
                   !.roi = Bytes(0, MaxRoiBytes)]
  /\ cache = InitEmpty(2, 0)
  /\ prev = InitEmpty(2, 0)
  /\ last = [op |-> "init", size |-> 0, ok |-> TRUE, fails |-> 2]
  /\ mask_display = FALSE
  /\ lastline = -1
  /\ nops = 0

HashStep ==
  /\ nops < MaxHashOps
  /\ nops' = nops + 1
  /\ UNCHANGED <<cache, prev, lastline>>

FullHash ==
  /\ HashStep
  /\ \E module \in 0 .. (MaxNodes + 1) :
       LET r == dt_dev_pixelpipe_cache_fullhash(ctx, module)
           this == [in |-> ctx, module |-> module,
                    basichash |-> r.basichash, hash |-> r.hash]
       IN  last' = [op |-> "fullhash", in |-> ctx, module |-> module,
                    basichash |-> r.basichash, hash |-> r.hash,
                    first |-> (last.op # "fullhash"),
                    before |-> IF last.op = "fullhash"
                               THEN [in |-> last.in, module |-> last.module,
                                     basichash |-> last.basichash,
                                     hash |-> last.hash]
                               ELSE this]
  /\ UNCHANGED <<ctx, mask_display>>

\* a module's parameters change and with them its piece's hash
SetNodeHash ==
  /\ HashStep
  /\ \E k \in DOMAIN ctx.nodes, hash \in NodeHashes :
       /\ hash # ctx.nodes[k].hash
       /\ ctx' = [ctx EXCEPT !.nodes[k].hash = hash]
  /\ UNCHANGED <<last, mask_display>>

\* a module starts or stops asking for the colorpicker
SetRequest ==
  /\ HashStep
  /\ \E k \in DOMAIN ctx.nodes :
       ctx' = [ctx EXCEPT !.nodes[k].pick = ~@]
  /\ UNCHANGED <<last, mask_display>>

\* the focus moves to another module or to none
SetFocus ==
  /\ HashStep
  /\ \E gui_module \in 0 .. Len(ctx.nodes) :
       /\ gui_module # ctx.gui_module
       /\ ctx' = [ctx EXCEPT !.gui_module = gui_module]
  /\ UNCHANGED <<last, mask_display>>

\* the primary sample changes its size or its box or its point
SetPicker ==
  /\ HashStep
  /\ \E picker \in Pickers :
       /\ picker # ctx.picker
       /\ ctx' = [ctx EXCEPT !.picker = picker]
  /\ UNCHANGED <<last, mask_display>>

SetRoi ==
  /\ HashStep
  /\ \E roi \in Rois :
       /\ roi # ctx.roi
       /\ ctx' = [ctx EXCEPT !.roi = roi]
  /\ UNCHANGED <<last, mask_display>>

\* another image is loaded, or the mask display is switched
SetPipe ==
  /\ HashStep
  /\ \E imgid \in 1 .. MaxImage, mask \in {0, 1} :
       /\ <<imgid, mask>> # <<ctx.imgid, ctx.mask_display>>
       /\ ctx' = [ctx EXCEPT !.imgid = imgid, !.mask_display = mask]
       /\ mask_display' = (mask # 0)
  /\ UNCHANGED last

NextHash ==
  \/ FullHash
  \/ SetNodeHash
  \/ SetRequest
  \/ SetFocus
  \/ SetPicker
  \/ SetRoi
  \/ SetPipe

SpecHash == InitHash /\ [][NextHash]_vars

\* the hash runs in which only the nodes change: a node's hash, a node's
\* colorpicker request and the focus; the sample, the roi, the image and the
\* mask display stay as they were at the start
NextNodes ==
  \/ FullHash
  \/ SetNodeHash
  \/ SetRequest
  \/ SetFocus

SpecNodes == InitHash /\ [][NextNodes]_vars

----------------------------------------------------------------------------
(* Runs of dt_dev_pixelpipe_cache_basichash_prior: calls of the function   *)
(* on a pipe, and between them the steps of the application that change    *)
(* what it reads: a piece is enabled or disabled, the focus moves, a       *)
(* node's hash changes.  No module asks for the colorpicker.               *)

\* a piece->hash that makes the basichash of the first node of image 1
\* come out as all ones
SentinelPreimage ==
  XorU64(Mul33(FoldBytes(U64(5381), PipemodeBytes(IdleContext), TRUE, 1)), AllOnes)

PriorNodeHashes == {U64(0), SentinelPreimage}

InitPrior ==
  /\ \E len \in 1 .. MaxPriorNodes :
       \E enabled \in [1 .. len -> BOOLEAN], gui_module \in 0 .. len :
          ctx = [IdleContext EXCEPT
                   !.nodes = [k \in 1 .. len |->
                                [Node(k, U64(0), FALSE) EXCEPT !.enabled = enabled[k]]],
                   !.gui_module = gui_module,
                   !.roi = Bytes(0, MaxRoiBytes)]
  /\ cache = InitEmpty(2, 0)
  /\ prev = InitEmpty(2, 0)
  /\ last = [op |-> "init", size |-> 0, ok |-> TRUE, fails |-> 2]
  /\ mask_display = FALSE
  /\ lastline = -1
  /\ nops = 0

PriorStep ==
  /\ nops < MaxPriorOps
  /\ nops' = nops + 1
  /\ UNCHANGED <<cache, prev, lastline, mask_display>>

\* the function is called for a module of the pipe or for one that is not
\* in it
BasichashPrior ==
  /\ PriorStep
  /\ \E module \in 1 .. (Len(ctx.nodes) + 1) :
       last' = [op |-> "basichash_prior", in |-> ctx, module |-> module,
                ret |-> dt_dev_pixelpipe_cache_basichash_prior(ctx, module)]
  /\ UNCHANGED ctx

\* a module is switched on or off
SetEnabled ==
  /\ PriorStep
  /\ \E k \in DOMAIN ctx.nodes :
       ctx' = [ctx EXCEPT !.nodes[k].enabled = ~@]
  /\ UNCHANGED last

SetFocusPrior ==
  /\ PriorStep
  /\ \E gui_module \in 0 .. Len(ctx.nodes) :
       /\ gui_module # ctx.gui_module
       /\ ctx' = [ctx EXCEPT !.gui_module = gui_module]
  /\ UNCHANGED last

SetNodeHashPrior ==
  /\ PriorStep
  /\ \E k \in DOMAIN ctx.nodes, hash \in PriorNodeHashes :
       /\ hash # ctx.nodes[k].hash
       /\ ctx' = [ctx EXCEPT !.nodes[k].hash = hash]
  /\ UNCHANGED last

NextPrior ==
  \/ BasichashPrior
  \/ SetEnabled
  \/ SetFocusPrior
  \/ SetNodeHashPrior

SpecPrior == InitPrior /\ [][NextPrior]_vars

----------------------------------------------------------------------------
(* Properties of the calls.  In a state where last.op names a call, prev is *)
(* the cache the call started on and cache is the cache it returned.        *)

IsGet == last.op = "get"
IsCheckmem == last.op = "checkmem"
IsFlush == last.op = "flush"

\* line k held the requested hash with the requested size when the get started
Matched(k) == prev.hash[k] = last.hash /\ prev.size[k] = last.size
\* line k held the requested hash with another size when the get started
Mismatched(k) == prev.hash[k] = last.hash /\ prev.size[k] # last.size

\* every field of line k is as it was when the call started
LineUnchanged(k) ==
  /\ cache.data[k] = prev.data[k]
  /\ cache.size[k] = prev.size[k]
  /\ cache.hash[k] = prev.hash[k]
  /\ cache.basichash[k] = prev.basichash[k]
  /\ cache.used[k] = prev.used[k]

\* C1: with more than two lines, a get for a hash and size some line holds
\* is a hit: it returns that line's buffer and FALSE, counts one query and
\* no miss, and changes no line's hashes, buffer or size nor the total.
C1_HitIsPure ==
  (IsGet /\ cache.entries > 2 /\ \E k \in Lines(prev) : Matched(k)) =>
     /\ last.hit
     /\ last.ret = FALSE
     /\ \E k \in Lines(prev) : Matched(k) /\ last.data = prev.data[k]
     /\ cache.queries = prev.queries + 1
     /\ cache.misses = prev.misses
     /\ cache.hash = prev.hash
     /\ cache.basichash = prev.basichash
     /\ cache.data = prev.data
     /\ cache.size = prev.size
     /\ cache.allmem = prev.allmem

\* C2: a get that hits line k leaves that line with age_weight -N, whatever
\* the age was before.
C2_HitPins ==
  (IsGet /\ last.hit) => cache.used[last.line] = -cache.entries

\* a hit on a line that carried the never-reuse weight
C2_Witness ==
  /\ IsGet /\ last.hit /\ cache.entries > 2
  /\ prev.used[last.line] = VERY_OLD_CACHE_WEIGHT
  /\ prev.hash[last.line] # INVALID_HASH

\* C3: with more than two lines, a line the lookup finds with the requested
\* hash and another size is not hit and ends the call with sentinel hashes
\* and an age below -N.  Stated for requests of an assigned hash; the lookup
\* reaches every line when it does not hit, and the lines before the hit
\* when it does.
C3_MismatchQuarantined ==
  (IsGet /\ cache.entries > 2 /\ last.hash # INVALID_HASH) =>
     \A k \in Lines(prev) :
        (Mismatched(k) /\ (last.hit => k < last.line)) =>
           /\ ~(last.hit /\ last.line = k)
           /\ cache.hash[k] = INVALID_HASH
           /\ cache.basichash[k] = INVALID_HASH
           /\ cache.used[k] < -cache.entries

\* C4: with more than two lines, after checkmem no line has an age below
\* -N, every line that had one is freed (null buffer, size 0, sentinel
\* hashes), and with no byte limit no other line is changed.
C4_CheckmemFreesHitErrors ==
  (IsCheckmem /\ cache.entries > 2) =>
     /\ \A k \in Lines(cache) : cache.used[k] >= -cache.entries
     /\ \A k \in Lines(cache) :
          (prev.used[k] < -prev.entries) =>
             /\ cache.data[k] = NULL
             /\ cache.size[k] = 0
             /\ cache.hash[k] = INVALID_HASH
             /\ cache.basichash[k] = INVALID_HASH
     /\ (cache.memlimit = 0) =>
          \A k \in Lines(cache) : (prev.used[k] >= -prev.entries) => LineUnchanged(k)

\* checkmem without a byte limit on a cache with a marked line that holds a
\* buffer, a pinned line at exactly -N and a line past its use
C4_Witness ==
  /\ IsCheckmem /\ cache.entries > 2 /\ cache.memlimit = 0
  /\ \E k \in Lines(prev) : prev.used[k] < -prev.entries /\ prev.data[k] # NULL
  /\ \E k \in Lines(prev) : prev.used[k] = -prev.entries /\ prev.data[k] # NULL

\* line k holds a buffer
Holds(c, k) == c.data[k] # NULL

\* the age above which checkmem takes a line for an unimportant one
ColdFloor(c) == IF c.entries \div 8 > 2 THEN c.entries \div 8 ELSE 2

\* line k is cold: it holds a buffer and is older than the floor
Cold(c, k) == Holds(c, k) /\ c.used[k] > ColdFloor(c)

\* line k is pinned and holds a buffer
Pinned(c, k) == Holds(c, k) /\ c.used[k] < 0

\* line k is pinned, holds a buffer and has aged to within a quarter of N
\* of zero (N / 4 rounded down)
AgedPinned(c, k) ==
  Holds(c, k) /\ c.used[k] < 0 /\ c.used[k] > -(c.entries \div 4)

OverLimit(c) == c.memlimit > 0 /\ c.allmem > c.memlimit

\* C5 as stated: with more than two lines and a byte limit, when checkmem
\* returns the total is within the limit, or no line is cold and no line
\* that holds a buffer is pinned.
C5_AllPinnedFreed ==
  (IsCheckmem /\ cache.entries > 2 /\ cache.memlimit > 0) =>
     \/ cache.allmem <= cache.memlimit
     \/ /\ \A k \in Lines(cache) : ~Cold(cache, k)
        /\ \A k \in Lines(cache) : ~Pinned(cache, k)

\* C5 as amended: ... or no line is cold and no line that holds a buffer
\* has an age in -(N / 4) + 1 .. -1.
C5_AgedPinnedFreed ==
  (IsCheckmem /\ cache.entries > 2 /\ cache.memlimit > 0) =>
     \/ cache.allmem <= cache.memlimit
     \/ /\ \A k \in Lines(cache) : ~Cold(cache, k)
        /\ \A k \in Lines(cache) : ~AgedPinned(cache, k)

\* checkmem frees a cold line and an aged pinned line and returns over the
\* limit with a pinned line left
C5_Witness ==
  /\ IsCheckmem /\ OverLimit(cache)
  /\ \E k \in Lines(prev) : Cold(prev, k) /\ ~Holds(cache, k)
  /\ \E k \in Lines(prev) : AgedPinned(prev, k) /\ ~Holds(cache, k)
  /\ \E k \in Lines(cache) : Pinned(cache, k)

\* C6 as stated: with more than two lines and the total over the byte
\* limit, a checkmem call strictly decreases the total unless every line
\* that holds a buffer is pinned.
C6_DecreasesUnlessPinned ==
  (IsCheckmem /\ prev.entries > 2 /\ OverLimit(prev)
     /\ \E k \in Lines(prev) : Holds(prev, k) /\ ~Pinned(prev, k)) =>
        cache.allmem < prev.allmem

\* C6 as amended: the call strictly decreases the total exactly when some
\* line that holds a buffer is marked with a hit error, is cold, or is an
\* aged pinned line; otherwise it leaves the total and every buffer as
\* they are.
C6_DecreasesIffEligible ==
  (IsCheckmem /\ prev.entries > 2 /\ OverLimit(prev)) =>
     IF \E k \in Lines(prev) :
           \/ Holds(prev, k) /\ prev.used[k] < -prev.entries
           \/ Cold(prev, k)
           \/ AgedPinned(prev, k)
     THEN cache.allmem < prev.allmem
     ELSE /\ cache.allmem = prev.allmem
          /\ cache.data = prev.data
          /\ cache.size = prev.size

\* checkmem over the limit that frees nothing although a line that is not
\* pinned holds a buffer
C6_Witness ==
  /\ IsCheckmem /\ prev.entries > 2 /\ OverLimit(prev)
  /\ cache = prev
  /\ \E k \in Lines(prev) : Holds(prev, k) /\ prev.used[k] >= 0

\* C7: with two lines every get hands out line (queries & 1), queries being
\* the counter after the call's increment, and two consecutive gets hand
\* out different lines whatever flush, flush_all_but, invalidate or reweight
\* calls lie between them.
C7_TwoLinesAlternate ==
  (IsGet /\ cache.entries = 2) =>
     /\ last.line = cache.queries % 2
     /\ cache.queries = prev.queries + 1
     /\ (last.before # -1) => (last.line # last.before)

\* a get on a two line cache after an earlier get whose line was reset in
\* between
C7_Witness ==
  /\ IsGet /\ cache.entries = 2 /\ last.before # -1
  /\ prev.basichash[last.before] = INVALID_HASH
  /\ prev.used[last.before] = VERY_OLD_CACHE_WEIGHT

\* C8: with two lines a get for more than the chosen line holds frees the
\* buffer and allocates exactly the requested size, a get for at most what
\* the line holds returns the buffer and leaves pointer, size and total as
\* they are; so while allocations succeed no line's size decreases.
C8_TwoLinesGrowOnly ==
  /\ (IsGet /\ cache.entries = 2) =>
        /\ (last.size > prev.size[last.line] /\ last.ok) =>
              /\ last.newdata
              /\ cache.data[last.line] # NULL
              /\ last.data = cache.data[last.line]
              /\ cache.size[last.line] = last.size
              /\ cache.allmem = (prev.allmem - prev.size[last.line]) + last.size
        /\ (last.size <= prev.size[last.line]) =>
              /\ ~last.newdata
              /\ last.data = prev.data[last.line]
              /\ cache.data[last.line] = prev.data[last.line]
              /\ cache.size[last.line] = prev.size[last.line]
              /\ cache.allmem = prev.allmem
  /\ (cache.entries = 2 /\ ~(IsGet /\ ~last.ok)) =>
        \A k \in Lines(cache) : cache.size[k] >= prev.size[k]

\* a get that grows a line that held a smaller buffer
C8_Witness ==
  /\ IsGet /\ cache.entries = 2 /\ last.ok
  /\ prev.size[last.line] > 0
  /\ last.size > prev.size[last.line]

\* C9 as stated: whenever a get returns a buffer, the line's size is exactly
\* the requested size.
C9_ExactSize ==
  (IsGet /\ last.data # NULL) => cache.size[last.line] = last.size

\* C9 as amended: the line's size is at least the requested size, and
\* exactly the requested size with more than two lines.
C9_AtLeastSize ==
  (IsGet /\ last.data # NULL) =>
     /\ cache.size[last.line] >= last.size
     /\ (cache.entries > 2) => cache.size[last.line] = last.size
     /\ last.newdata => cache.size[last.line] = last.size

\* a get on a two line cache that returns a buffer larger than requested
C9_Witness ==
  /\ IsGet /\ cache.entries = 2 /\ last.data # NULL
  /\ cache.size[last.line] > last.size

\* C10: after flush every line has sentinel hashes and the never-reuse
\* weight, buffers, sizes and the total are as before, and both counters
\* equal the previous query counter & 1.
C10_FlushResets ==
  IsFlush =>
     /\ \A k \in Lines(cache) :
          /\ cache.hash[k] = INVALID_HASH
          /\ cache.basichash[k] = INVALID_HASH
          /\ cache.used[k] = VERY_OLD_CACHE_WEIGHT
     /\ cache.data = prev.data
     /\ cache.size = prev.size
     /\ cache.allmem = prev.allmem
     /\ cache.queries = prev.queries % 2
     /\ cache.misses = prev.queries % 2

\* a flush of a cache in use whose counters differ
C10_Witness ==
  /\ IsFlush
  /\ prev.queries = 2 /\ prev.misses = 1
  /\ \E k \in Lines(prev) : prev.data[k] # NULL /\ prev.hash[k] # INVALID_HASH

IsFlushAllBut == last.op = "flush_all_but"

\* every line of c holds a buffer and an assigned basic hash, and no two
\* lines hold the same basic hash
Populated(c) ==
  /\ \A k \in Lines(c) : c.data[k] # NULL /\ c.basichash[k] # INVALID_HASH
  /\ \A j, k \in Lines(c) : (j # k) => (c.basichash[j] # c.basichash[k])

\* flush_all_but leaves the lines of the given basic hash as they are and
\* resets the hashes and the age of every other line, touching no buffer,
\* size or counter
FlushAllButFrame ==
  /\ \A k \in Lines(prev) :
       IF prev.basichash[k] = last.basichash
       THEN LineUnchanged(k)
       ELSE /\ cache.hash[k] = INVALID_HASH
            /\ cache.basichash[k] = INVALID_HASH
            /\ cache.used[k] = VERY_OLD_CACHE_WEIGHT
            /\ cache.data[k] = prev.data[k]
            /\ cache.size[k] = prev.size[k]
  /\ cache.allmem = prev.allmem
  /\ cache.queries = prev.queries
  /\ cache.misses = prev.misses

\* C11 as stated: flush_all_but keeps the lines of the given basic hash and
\* resets the others; after gets have populated the lines with distinct
\* basic hashes, flush_all_but for line k's basic hash makes available true
\* for line k's hash and size and false for every other line's.  The round
\* trip is stated for lines populated with assigned hashes.
C11_RoundTripOthersGone ==
  IsFlushAllBut =>
     /\ FlushAllButFrame
     /\ (/\ Populated(prev)
         /\ \A k \in Lines(prev) : prev.hash[k] # INVALID_HASH
         /\ \E k \in Lines(prev) : prev.basichash[k] = last.basichash) =>
          \A k \in Lines(prev) :
             IF prev.basichash[k] = last.basichash
             THEN dt_dev_pixelpipe_cache_available(cache, prev.hash[k], prev.size[k])
             ELSE ~dt_dev_pixelpipe_cache_available(cache, prev.hash[k], prev.size[k])

\* C11 as amended: ... and for another line's hash and size available is
\* true exactly when that hash is the sentinel or a kept line holds the
\* same hash with the same size.
C11_RoundTripExact ==
  IsFlushAllBut =>
     /\ FlushAllButFrame
     /\ Populated(prev) =>
          \A k \in Lines(prev) :
             IF prev.basichash[k] = last.basichash
             THEN dt_dev_pixelpipe_cache_available(cache, prev.hash[k], prev.size[k])
             ELSE dt_dev_pixelpipe_cache_available(cache, prev.hash[k], prev.size[k])
                  = \/ prev.hash[k] = INVALID_HASH
                    \/ \E i \in Lines(prev) :
                          /\ prev.basichash[i] = last.basichash
                          /\ prev.hash[i] = prev.hash[k]
                          /\ prev.size[i] = prev.size[k]

\* flush_all_but for the basic hash of one line of a cache of more than two
\* lines, all populated with distinct basic hashes and assigned hashes
C11_Witness ==
  /\ IsFlushAllBut /\ cache.entries > 2 /\ Populated(prev)
  /\ \A k \in Lines(prev) : prev.hash[k] # INVALID_HASH
  /\ \E k \in Lines(prev) : prev.basichash[k] = last.basichash
  /\ \E k \in Lines(cache) : cache.hash[k] # INVALID_HASH
  /\ \E k \in Lines(cache) : prev.hash[k] # INVALID_HASH /\ cache.hash[k] = INVALID_HASH

IsInvalidate == last.op = "invalidate"
IsReweight == last.op = "reweight"
IsAvailable == last.op = "available"
IsInit == last.op = "init"

\* the counters of the cache are as they were when the call started
CountersUnchanged ==
  /\ cache.allmem = prev.allmem
  /\ cache.queries = prev.queries
  /\ cache.misses = prev.misses

\* C12: invalidate sets sentinel hashes and the never-reuse weight on
\* exactly the lines whose buffer is the given pointer, whatever their age,
\* and leaves the other lines, every buffer and size and the counters as
\* they are.
C12_InvalidateByPointer ==
  IsInvalidate =>
     /\ \A k \in Lines(prev) :
          IF prev.data[k] = last.data
          THEN /\ cache.hash[k] = INVALID_HASH
               /\ cache.basichash[k] = INVALID_HASH
               /\ cache.used[k] = VERY_OLD_CACHE_WEIGHT
          ELSE LineUnchanged(k)
     /\ cache.data = prev.data
     /\ cache.size = prev.size
     /\ CountersUnchanged

\* invalidate of the buffer of a pinned line while another line keeps its
\* assigned hash
C12_Witness ==
  /\ IsInvalidate /\ last.data # NULL
  /\ \E k \in Lines(prev) :
       /\ prev.data[k] = last.data
       /\ prev.used[k] = -prev.entries
       /\ prev.hash[k] # INVALID_HASH
  /\ \E k \in Lines(prev) :
       prev.data[k] # last.data /\ cache.hash[k] # INVALID_HASH

\* C13: reweight sets the age -N on exactly the lines whose buffer is the
\* given pointer and whose size is the given size when the mask display is
\* off, and changes nothing when it is on; hashes, buffers, sizes and
\* counters are unchanged either way.
C13_ReweightByPointerAndSize ==
  IsReweight =>
     /\ last.avoiding => cache = prev
     /\ ~last.avoiding =>
          \A k \in Lines(prev) :
             cache.used[k] =
                IF prev.data[k] = last.data /\ prev.size[k] = last.size
                THEN -prev.entries ELSE prev.used[k]
     /\ cache.hash = prev.hash
     /\ cache.basichash = prev.basichash
     /\ cache.data = prev.data
     /\ cache.size = prev.size
     /\ CountersUnchanged

\* reweight with the mask display off that pins a line that held the
\* buffer with the size and was not pinned
C13_Witness ==
  /\ IsReweight /\ ~last.avoiding /\ last.data # NULL
  /\ \E k \in Lines(prev) :
       /\ prev.data[k] = last.data /\ prev.size[k] = last.size
       /\ prev.used[k] >= 0
       /\ cache.used[k] = -cache.entries

\* C14: available returns TRUE exactly when some line holds the hash with
\* the size, and changes no line and no counter.
C14_AvailableIffHeld ==
  IsAvailable =>
     /\ last.ret = (\E k \in Lines(prev) :
                       prev.hash[k] = last.hash /\ prev.size[k] = last.size)
     /\ cache = prev

\* available for an assigned hash that a line holds with another size
C14_Witness ==
  /\ IsAvailable /\ ~last.ret /\ last.hash # INVALID_HASH
  /\ \E k \in Lines(prev) :
       /\ prev.hash[k] = last.hash
       /\ prev.size[k] # last.size
       /\ prev.data[k] # NULL

\* C15: an init with a line size whose allocations do not all succeed
\* returns failure and leaves every line without buffer, with size 0, and a
\* total of 0; when all succeed it returns success with every line
\* allocated at the line size and a total of N times the line size.
C15_InitAllOrNothing ==
  (IsInit /\ last.size > 0) =>
     IF last.fails < cache.entries
     THEN /\ ~last.ok
          /\ \A k \in Lines(cache) : cache.data[k] = NULL /\ cache.size[k] = 0
          /\ cache.allmem = 0
     ELSE /\ last.ok
          /\ \A k \in Lines(cache) :
               cache.data[k] # NULL /\ cache.size[k] = last.size
          /\ cache.allmem = cache.entries * last.size

\* an init whose first allocations succeed and whose last one fails
C15_Witness ==
  /\ IsInit /\ last.size > 0 /\ cache.entries > 2
  /\ last.fails = cache.entries - 1
  /\ ~last.ok

\* C16: with two lines checkmem changes nothing, also with a byte limit
\* that the total exceeds.
C16_TwoLinesNoCleanup ==
  (IsCheckmem /\ prev.entries = 2) => cache = prev

\* checkmem on a two line cache over its byte limit with a line past its
\* use that holds a buffer
C16_Witness ==
  /\ IsCheckmem /\ prev.entries = 2 /\ OverLimit(prev)
  /\ \E k \in Lines(prev) : Cold(prev, k)

\* the last get of the scenario has returned
ScenarioDone == IsGet /\ nops = ScenarioLength(cache)

\* the gets of the scenario before the last one go as the scenario says:
\* the first misses into a line, the second hits it and pins it at -N, the
\* following ones miss and fill the other lines
ScenarioFills ==
  /\ (IsGet /\ nops = 1) => ~last.hit /\ last.newdata
  /\ (IsGet /\ nops = 2) =>
        /\ last.hit /\ last.line = last.before
        /\ cache.used[last.line] = -cache.entries
  /\ (IsGet /\ nops > 2 /\ nops < ScenarioLength(cache)) =>
        /\ ~last.hit /\ last.newdata
        /\ prev.data[last.line] = NULL

\* C17 as stated: in the scenario on four lines the get for the last new
\* hash takes a line other than the line L0 of the first hash, and L0 still
\* holds the first hash afterwards.
C17_FirstLineKept ==
  (ScenarioDone /\ cache.entries = MaxEntries + 1) =>
     /\ \E k \in Lines(prev) : prev.hash[k] = ScenarioHash(1)
     /\ \A k \in Lines(prev) :
          (prev.hash[k] = ScenarioHash(1)) =>
             last.line # k /\ cache.hash[k] = ScenarioHash(1)

\* C17 as amended: the gets before go as the scenario says, and the get for
\* the last new hash takes L0, whose age has grown from -N to 0 with the N
\* gets since the hit and is the greatest of all, and L0 holds the new hash
\* afterwards.
C17_FirstLineTaken ==
  /\ ScenarioFills
  /\ ScenarioDone =>
        /\ ~last.hit
        /\ \E k \in Lines(prev) : prev.hash[k] = ScenarioHash(1)
        /\ \A k \in Lines(prev) :
             (prev.hash[k] = ScenarioHash(1)) =>
                /\ prev.used[k] = -1
                /\ \A j \in Lines(prev) : prev.used[j] <= prev.used[k]
                /\ last.line = k
                /\ cache.hash[k] = ScenarioHash(nops)
        /\ \A k \in Lines(cache) : cache.hash[k] # ScenarioHash(1)

\* the scenario on four lines, run to its end
C17_Witness ==
  /\ ScenarioDone /\ cache.entries = MaxEntries + 1
  /\ \A k \in Lines(prev) : prev.data[k] # NULL /\ prev.used[k] < 0

\* C18 as stated: after the get for the last new hash of the scenario on
\* four lines the counters read misses = N + 1 and queries = N + 1, that is
\* 5 and 5.
C18_CountersEqual ==
  (ScenarioDone /\ cache.entries = MaxEntries + 1) =>
     /\ cache.misses = cache.entries + 1
     /\ cache.queries = cache.entries + 1

\* C18 as amended: misses = N + 1 and queries = N + 2 (5 and 6 on 4 lines):
\* the scenario makes N + 2 gets, and the one that hits is a query too.
C18_CountersCountHit ==
  ScenarioDone =>
     /\ cache.misses = cache.entries + 1
     /\ cache.queries = cache.entries + 2

\* the scenario on four lines, run to its end, with five misses
C18_Witness ==
  /\ ScenarioDone /\ cache.entries = MaxEntries + 1
  /\ ~last.hit /\ cache.misses = prev.misses + 1


(* Claims about the hash functions *)

\* a call of dt_dev_pixelpipe_cache_fullhash has just returned
IsFullHash == last.op = "fullhash"

\* the call came after another call of the function
IsSecondFullHash == IsFullHash /\ ~last.first

\* the piece->hash values of the nodes of a context, in their order
NodeHashList(c) == [k \in DOMAIN c.nodes |-> c.nodes[k].hash]

\* the inputs of a call r that the determinism sentence lists: image id,
\* pipe type, mask display, the nodes' hashes in order, the roi, and the
\* number of nodes asked for
Listed(r) ==
  <<r.in.imgid, r.in.type, r.in.mask_display, NodeHashList(r.in), r.in.roi,
    r.module>>

\* the sample the colorpicker has in use: its size and the bytes that go
\* with the size
ActiveSample(c) ==
  <<c.picker.size,
    CASE c.picker.size = "box" -> c.picker.box
      [] c.picker.size = "point" -> c.picker.point
      [] OTHER -> <<>>>>

\* what a call reads besides the listed inputs: for every node whether the
\* focus leaves it out and whether its module asks for the colorpicker, and
\* the sample in use
SideInputs(r) ==
  <<[k \in DOMAIN r.in.nodes |-> Bypassed(r.in, k)],
    [k \in DOMAIN r.in.nodes |-> r.in.nodes[k].pick],
    ActiveSample(r.in)>>

\* the pair of hashes a call returned
HashPair(r) == <<r.basichash, r.hash>>

\* C19 (as the specification states it): two calls of
\* dt_dev_pixelpipe_cache_fullhash with the same image id, pipe type, mask
\* display, node hashes in the same order and roi return the same basichash
\* and the same hash, whatever happened between them.
C19_ListedInputsDecide ==
  IsSecondFullHash =>
    (Listed(last) = Listed(last.before) => HashPair(last) = HashPair(last.before))

\* C19 (amended): two calls of dt_dev_pixelpipe_cache_fullhash with the same
\* listed inputs return the same pair of hashes when, besides, the focus
\* leaves out the same nodes, the same nodes ask for the colorpicker and the
\* colorpicker has the same sample in use; whatever else changed between the
\* calls (which module has the focus, the sample that is not in use) has no
\* influence.
C19_ReadInputsDecide ==
  IsSecondFullHash =>
    (Listed(last) = Listed(last.before) /\ SideInputs(last) = SideInputs(last.before)
       => HashPair(last) = HashPair(last.before))

\* C19 witness: a second call with the same listed and side inputs as the
\* call before it, in a context that is not the same (the focus or the
\* sample not in use has changed), where a hashed node asks for the
\* colorpicker and a sample is in use.
C19_Witness ==
  /\ IsSecondFullHash
  /\ Listed(last) = Listed(last.before)
  /\ SideInputs(last) = SideInputs(last.before)
  /\ last.in # last.before.in
  /\ last.in.picker.size # "none"
  /\ \E k \in DOMAIN last.in.nodes :
       k <= last.module /\ ~Bypassed(last.in, k) /\ last.in.nodes[k].pick
  /\ HashPair(last) = HashPair(last.before)

\* the context of the last call with the hash of node k replaced
WithNodeHash(k, hash) == [last.in EXCEPT !.nodes[k].hash = hash]

\* the basichash of the last call is not the one the call would have
\* returned with the hash of node k replaced
ChangeShows(k, hash) ==
  dt_dev_pixelpipe_cache_basichash(WithNodeHash(k, hash), last.module)
    # last.basichash

\* C20 (as the specification states it): changing only the hash of one node
\* changes the basichash of every call that asks for more nodes than the
\* node's index (counted from 0) and leaves every other basichash unchanged.
\* Node k of the model has index k - 1.
C20_ChangeShowsIffWithin ==
  IsFullHash =>
    \A k \in DOMAIN last.in.nodes :
      \A hash \in NodeHashes \ {last.in.nodes[k].hash} :
        ChangeShows(k, hash) <=> (k <= last.module)

\* C20 (amended): changing only the hash of one node changes the basichash
\* of a call exactly when the call asks for more nodes than the node's index
\* and the focus does not leave the node out; the basichash of every other
\* call is unchanged.
C20_ChangeShowsIffHashed ==
  IsFullHash =>
    \A k \in DOMAIN last.in.nodes :
      \A hash \in NodeHashes \ {last.in.nodes[k].hash} :
        ChangeShows(k, hash) <=> (k <= last.module /\ ~Bypassed(last.in, k))

\* C20 witness: two calls that ask for the same number of nodes in contexts
\* that differ in the hash of one node only, a node within that number that
\* the focus does not leave out, have returned two different basichashes.
C20_Witness ==
  /\ IsSecondFullHash
  /\ last.module = last.before.module
  /\ \E k \in DOMAIN last.in.nodes :
       /\ k <= last.module
       /\ ~Bypassed(last.in, k)
       /\ last.in.nodes[k].hash # last.before.in.nodes[k].hash
       /\ last.in = [last.before.in EXCEPT !.nodes[k].hash = last.in.nodes[k].hash]
  /\ last.basichash # last.before.basichash

\* the last two calls asked for the same number of nodes in contexts that
\* differ in the roi only
OnlyRoiDiffers ==
  /\ IsSecondFullHash
  /\ last.module = last.before.module
  /\ last.in.roi # last.before.in.roi
  /\ last.in = [last.before.in EXCEPT !.roi = last.in.roi]

\* the number of bytes in which two structs of one length differ
DiffBytes(a, b) == Cardinality({i \in DOMAIN a : a[i] # b[i]})

\* C21 (as the specification states it): two calls of
\* dt_dev_pixelpipe_cache_fullhash on the same image, pipe and nodes whose
\* rois differ return the same basichash and two different hashes.
C21_RoiChangesHash ==
  OnlyRoiDiffers =>
    /\ last.basichash = last.before.basichash
    /\ last.hash # last.before.hash

\* C21 (amended): two such calls return the same basichash; they return two
\* different hashes when the rois differ in exactly one byte.  Rois that
\* differ in two bytes or more can have the same hash.
C21_RoiByteChangesHash ==
  OnlyRoiDiffers =>
    /\ last.basichash = last.before.basichash
    /\ (DiffBytes(last.in.roi, last.before.in.roi) = 1
          => last.hash # last.before.hash)

\* C21 witness: two calls whose rois differ in one byte have returned the
\* same basichash and two different hashes, on a pipe with a node in the
\* hash.
C21_Witness ==
  /\ OnlyRoiDiffers
  /\ DiffBytes(last.in.roi, last.before.in.roi) = 1
  /\ last.module >= 1
  /\ last.basichash = last.before.basichash
  /\ last.hash # last.before.hash

(* Claims about dt_dev_pixelpipe_cache_basichash_prior *)

IsBasichashPrior == last.op = "basichash_prior"

\* the nodes before the module asked for whose piece is enabled and that
\* the focus does not leave out; every node is before a module that is not
\* in the pipe
ActiveBefore ==
  {k \in DOMAIN last.in.nodes :
     /\ k < last.module
     /\ last.in.nodes[k].enabled
     /\ ~Bypassed(last.in, k)}

Greatest(S) == CHOOSE x \in S : \A y \in S : y <= x

\* the result is the basichash over the nodes from the first through the
\* last node of ActiveBefore
IsHashThroughLastActive ==
  last.ret = dt_dev_pixelpipe_cache_basichash(last.in, Greatest(ActiveBefore))

\* the result does not depend on the hash of any node after the last node
\* of ActiveBefore
LaterNodesSilent ==
  \A k \in DOMAIN last.in.nodes : \A hash \in PriorNodeHashes :
     k > Greatest(ActiveBefore) =>
       dt_dev_pixelpipe_cache_basichash_prior(WithNodeHash(k, hash), last.module)
         = last.ret

\* C22 (as the specification states it): the function returns all ones if
\* and only if no node before the module asked for is enabled and not left
\* out by the focus; otherwise it returns the basichash over the nodes from
\* the first through the last such node, to which no later node contributes.
C22_SentinelIffNoneActive ==
  IsBasichashPrior =>
    /\ (last.ret = AllOnes) <=> (ActiveBefore = {})
    /\ (ActiveBefore # {}) => (IsHashThroughLastActive /\ LaterNodesSilent)

\* C22 (amended): the function returns all ones if no node before the
\* module asked for is enabled and not left out by the focus; otherwise it
\* returns the basichash over the nodes from the first through the last
\* such node, to which no later node contributes.  That basichash can be
\* all ones itself.
C22_SentinelIfNoneActive ==
  IsBasichashPrior =>
    /\ (ActiveBefore = {}) => (last.ret = AllOnes)
    /\ (ActiveBefore # {}) => (IsHashThroughLastActive /\ LaterNodesSilent)

\* C22 witness: a call for the third module of a pipe whose first node is
\* active and whose second node is disabled has returned the basichash
\* over the first node, which is not all ones.
C22_Witness ==
  /\ IsBasichashPrior
  /\ last.module = 3
  /\ ActiveBefore = {1}
  /\ ~last.in.nodes[2].enabled /\ ~Bypassed(last.in, 2)
  /\ last.ret = dt_dev_pixelpipe_cache_basichash(last.in, 1)
  /\ last.ret # AllOnes

(* Claims about the choice of a line *)

\* the lookup of the last get came to line k and found the requested hash
\* with another size there
Detected(k) == Mismatched(k) /\ (last.hit => k < last.line)

\* C23: with more than two lines, the get that finds the requested hash
\* with another size on line k leaves that line's buffer alone: pointer and
\* size of line k are after the call what they were before, and the line
\* handed out is another one.  Stated for requests of an assigned hash.
C23_MismatchedBufferKept ==
  (IsGet /\ cache.entries > 2 /\ last.hash # INVALID_HASH) =>
     \A k \in Lines(prev) :
        Detected(k) =>
           /\ cache.data[k] = prev.data[k]
           /\ cache.size[k] = prev.size[k]
           /\ last.line # k

\* C23 witness: a get has found the requested hash with another size on a
\* line that holds a buffer, and has missed.
C23_Witness ==
  /\ IsGet /\ cache.entries > 2 /\ last.hash # INVALID_HASH /\ ~last.hit
  /\ \E k \in Lines(prev) : Detected(k) /\ prev.data[k] # NULL

\* the last get came after another get, whose line still carries the hash
\* that get asked for
IsSecondGet == IsGet /\ last.before # -1

\* C24: with more than two lines and the mask display off, a get that
\* misses does not take the line the get before it handed out, and two
\* consecutive gets for different hashes hand out different lines.
C24_NotTheLineJustUsed ==
  (IsSecondGet /\ cache.entries > 2 /\ ~last.avoiding) =>
     /\ ~last.hit => last.line # last.before
     /\ last.hash # prev.hash[last.before] => last.line # last.before

\* C24 witness: a get for another hash than the get before it has missed
\* on a cache whose lines all hold buffers.
C24_Witness ==
  /\ IsSecondGet /\ cache.entries > 2 /\ ~last.avoiding /\ ~last.hit
  /\ last.hash # prev.hash[last.before]
  /\ \A k \in Lines(prev) : prev.data[k] # NULL

\* a get on more than two lines has missed
IsMiss == IsGet /\ cache.entries > 2 /\ ~last.hit

\* the cache of the last get when it chose its line: every line aged, the
\* lines found with the hash and another size marked
Aged == Lookup(AgeAll(prev), last.hash, last.size).c

\* the lines without a buffer
NullLines == {k \in Lines(prev) : prev.data[k] = NULL}

\* the lines without a buffer that were not used just now: their weight is
\* above 1 after the ageing
FreeLines == {k \in NullLines : Aged.used[k] > 1}

\* line k is the first of the lines of S with the largest weight
OldestOf(S, k) ==
  /\ k \in S
  /\ \A j \in S : Aged.used[j] <= Aged.used[k]
  /\ \A j \in S : Aged.used[j] = Aged.used[k] => k <= j

AgedWeight(k) == prev.used[k] + 1

\* C26 (as the specification states it): with more than two lines, a get
\* that misses while every line holds a buffer and some line has a weight
\* above 2 after the ageing takes a line with the largest weight after the
\* ageing, so no line whose weight is 2 or less.  Stated for requests of an
\* assigned hash on a cache where no line is marked with a hit error.
C26_ColdestAfterAgeingTaken ==
  (IsMiss /\ NullLines = {} /\ last.hash # INVALID_HASH
     /\ (\A k \in Lines(prev) : prev.used[k] >= -prev.entries)
     /\ \E k \in Lines(prev) : AgedWeight(k) > 2) =>
     /\ \A j \in Lines(prev) : AgedWeight(j) <= AgedWeight(last.line)
     /\ AgedWeight(last.line) > 2

\* C26 (amended): with more than two lines, a get that misses while every
\* line holds a buffer and some line has a weight above 2 when the line is
\* chosen (after the ageing and after the lookup has marked the lines it
\* found with the hash and another size) takes the first of the lines with
\* the largest weight; so it takes no line whose weight is 2 or less,
\* pinned and marked lines among them.
C26_ColdestUsedTaken ==
  (IsMiss /\ NullLines = {} /\ \E k \in Lines(prev) : Aged.used[k] > 2) =>
     /\ OldestOf(Lines(prev), last.line)
     /\ \A k \in Lines(prev) : Aged.used[k] <= 2 => last.line # k

\* C26 witness: a miss on a cache full of buffers where two lines had the
\* same, largest weight and a third was pinned; the first of the two was
\* taken.
C26_Witness ==
  /\ IsMiss /\ NullLines = {}
  /\ Aged.used[last.line] > 2
  /\ \E k \in Lines(prev) : k > last.line /\ Aged.used[k] = Aged.used[last.line]
  /\ \E k \in Lines(prev) : Aged.used[k] < 0 /\ Aged.used[k] >= -prev.entries

(* Claims about the bookkeeping of a get *)

\* C27: a get that does not hit, on a cache of any number of lines, stores
\* the requested basichash and hash on the line it hands out, counts one
\* query and one miss, returns TRUE, and leaves the line with the weight
\* 1000 when the mask display is on, else -N when the line is asked for as
\* important and 0 when not.
C27_MissRecorded ==
  (IsGet /\ ~last.hit) =>
     /\ cache.basichash[last.line] = last.basichash
     /\ cache.hash[last.line] = last.hash
     /\ cache.queries = prev.queries + 1
     /\ cache.misses = prev.misses + 1
     /\ last.ret = TRUE
     /\ cache.used[last.line] =
          IF last.avoiding THEN 1000
          ELSE IF last.important THEN -cache.entries ELSE 0

\* C27 witness: a get for an important line has missed with the mask
\* display on, after an earlier get.
C27_Witness ==
  /\ IsSecondGet /\ ~last.hit
  /\ last.avoiding /\ last.important
  /\ cache.used[last.line] = 1000
  /\ cache.misses = prev.misses + 1

\* the last get marked line k: it has more than two lines and its lookup
\* found the requested hash with another size there
Quarantined(k) == cache.entries > 2 /\ Detected(k)

\* C28: every get ages every line by one before anything else; a line that
\* the get neither hands out (hit or chosen) nor marks ends the call with
\* its weight one above what it was and with its hashes, buffer pointer
\* and size unchanged.
C28_OtherLinesAgeByOne ==
  IsGet =>
    \A k \in Lines(prev) :
      (k # last.line /\ ~Quarantined(k)) =>
         /\ cache.used[k] = prev.used[k] + 1
         /\ cache.hash[k] = prev.hash[k]
         /\ cache.basichash[k] = prev.basichash[k]
         /\ cache.data[k] = prev.data[k]
         /\ cache.size[k] = prev.size[k]

\* C28 witness: a get has left alone a pinned line that holds a buffer and
\* an assigned hash, which has aged by one, while it marked another line.
C28_Witness ==
  /\ IsGet
  /\ \E k \in Lines(prev) : k # last.line /\ Quarantined(k)
  /\ \E k \in Lines(prev) :
       /\ k # last.line /\ ~Quarantined(k)
       /\ prev.used[k] < 0 /\ prev.data[k] # NULL /\ prev.hash[k] # INVALID_HASH
       /\ cache.used[k] = prev.used[k] + 1

(* Claims about the order of the reclamation *)

\* line k holds a buffer and is pinned: its weight is in -N .. -1
PinnedLine(c, k) == Holds(c, k) /\ c.used[k] < 0 /\ c.used[k] >= -c.entries

\* line k was freed by the last call
Freed(k) == Holds(prev, k) /\ ~Holds(cache, k)

\* the bytes held by the lines of S
RECURSIVE SizeSum(_, _)
SizeSum(c, S) ==
  IF S = {} THEN 0
  ELSE LET k == CHOOSE x \in S : TRUE
       IN  c.size[k] + SizeSum(c, S \ {k})

\* the total once every line marked with a hit error and every cold line
\* of the cache the call started on is freed
TotalWithoutCold ==
  prev.allmem
    - SizeSum(prev, {k \in Lines(prev) :
                       prev.used[k] < -prev.entries \/ Cold(prev, k)})

\* C29: with more than two lines, checkmem frees a pinned line only when
\* the total still exceeds the byte limit after every cold line has been
\* freed, and then no cold line is left; without a byte limit, or with the
\* total within the limit, it changes no line but those marked with a hit
\* error.
C29_PinnedFreedLast ==
  (IsCheckmem /\ prev.entries > 2) =>
     /\ (\E k \in Lines(prev) : PinnedLine(prev, k) /\ Freed(k)) =>
          /\ \A k \in Lines(prev) : Cold(prev, k) => Freed(k)
          /\ prev.memlimit # 0
          /\ TotalWithoutCold > prev.memlimit
     /\ (prev.memlimit = 0 \/ prev.allmem <= prev.memlimit) =>
          \A k \in Lines(prev) :
             prev.used[k] >= -prev.entries => LineUnchanged(k)

\* C29 witness: checkmem has freed a cold line, which brought the total
\* within the byte limit, and has kept a pinned line that had aged far
\* enough to be freed.
C29_Witness ==
  /\ IsCheckmem /\ prev.entries > 2
  /\ OverLimit(prev) /\ ~OverLimit(cache)
  /\ \E k \in Lines(prev) : Cold(prev, k) /\ Freed(k)
  /\ \E k \in Lines(prev) : AgedPinned(prev, k) /\ Holds(cache, k)

(* Claims about a failed allocation *)

\* the allocation of the last get failed
AllocFailed == IsGet /\ ~last.hit /\ last.newdata /\ ~last.ok

\* the cache the last get would have returned had its allocation succeeded
HadItSucceeded ==
  dt_dev_pixelpipe_cache_get(prev, last.avoiding, last.basichash, last.hash,
                             last.size, last.important, TRUE).c

----------------------------------------------------------------------------
(* Claims about the state between the calls *)

\* no call is under way: the last one has returned to the driver
Steady == last.op = "idle"

\* line k carries a hash and no buffer
HashWithoutBuffer(c, k) == c.hash[k] # INVALID_HASH /\ c.data[k] = NULL

\* C31: between the calls every line whose full hash is not the sentinel
\* holds a buffer; a hash on a line with a null buffer is never seen once a
\* call has returned.
C31_HashedLineHoldsBuffer ==
  Steady => \A k \in Lines(cache) : ~HashWithoutBuffer(cache, k)

\* C31 witness: a get for an assigned hash whose allocation failed has
\* returned, and the line it chose carries the hash and a null buffer while
\* the driver is about to make its next call.
C31_Witness ==
  /\ Steady
  /\ lastline >= 0
  /\ HashWithoutBuffer(cache, lastline)
  /\ cache.size[lastline] = 0

\* line k of cache c carries the mark of a hit error
Marked(c, k) == c.used[k] < -c.entries

\* C32: a line below -N got there in the call that has just returned, a get
\* whose lookup found it with the requested hash and another size, or was
\* there when the call started and the call has not reset it: it has aged by
\* at most one and still has sentinel hashes.  The first pass of checkmem
\* frees the lines below -N and no other: a line at exactly -N or above
\* comes out of the pass as it went in.
C32_BelowPinnedOnlyByMismatch ==
  /\ \A k \in Lines(cache) :
       Marked(cache, k) =>
          \/ IsGet /\ cache.entries > 2 /\ Detected(k)
          \/ /\ Marked(prev, k)
             /\ cache.used[k] \in {prev.used[k], prev.used[k] + 1}
             /\ cache.hash[k] = INVALID_HASH
             /\ cache.basichash[k] = INVALID_HASH
  /\ (IsCheckmem /\ cache.entries > 2) =>
       LET bad == FreeBad(prev, 0)
       IN  /\ \A k \in Lines(prev) :
                IF Marked(prev, k)
                THEN bad.data[k] = NULL /\ bad.used[k] = VERY_OLD_CACHE_WEIGHT
                ELSE /\ bad.data[k] = prev.data[k]
                     /\ bad.size[k] = prev.size[k]
                     /\ bad.hash[k] = prev.hash[k]
                     /\ bad.basichash[k] = prev.basichash[k]
                     /\ bad.used[k] = prev.used[k]
           /\ (cache.memlimit = 0) => cache = bad

\* C32 witness: checkmem has run on a cache with a marked line that held a
\* buffer and a line at exactly -N that held one; the first is freed, the
\* second is as it was.
C32_Witness ==
  /\ IsCheckmem /\ cache.entries > 2
  /\ \E k, j \in Lines(prev) :
       /\ Marked(prev, k) /\ prev.data[k] # NULL /\ cache.data[k] = NULL
       /\ prev.used[j] = -prev.entries /\ prev.data[j] # NULL
       /\ LineUnchanged(j)

----------------------------------------------------------------------------
(* Decay runs: important gets, one after the other, for one hash per line  *)
(* and buffers of every size, whose allocations succeed, on a cache of     *)
(* MaxEntries lines without a byte limit that is empty at first, mask      *)
(* display off.  The record of a get keeps, for every line, for how many   *)
(* gets in a row the line has been left alone since it was at -N.  A run   *)
(* is long enough to pin a line and leave it alone for N + 3 gets.         *)

\* the number of gets after which a line left alone at -N is looked at
DecayGets(c) == c.entries + 3

\* the number of gets of a decay run
DecayOps == MaxEntries + 4

\* no line is being followed
NoneFollowed(c) == [k \in Lines(c) |-> -1]

InitDecay ==
  /\ LET r == dt_dev_pixelpipe_cache_init(MaxEntries, 0, 0, MaxEntries)
     IN  /\ cache = r.c
         /\ prev = r.c
         /\ last = [op |-> "init", size |-> 0, ok |-> r.ok, fails |-> MaxEntries,
                     since |-> NoneFollowed(r.c), clean |-> NoneFollowed(r.c)]
  /\ mask_display = FALSE
  /\ lastline = -1
  /\ nops = 0
  /\ ctx = IdleContext

\* the count of line k after a get that returned r: 0 when the get left
\* the line at -N, one more when the line was followed and the get neither
\* hit nor chose it (and, if `strict`, did not mark it either)
Followed(count, r, marked, strict, k) ==
  IF r.c.used[k] = -r.c.entries THEN 0
  ELSE IF count[k] >= 0 /\ r.line # k /\ ~(strict /\ k \in marked)
       THEN count[k] + 1
       ELSE -1

GetDecay ==
  /\ nops < DecayOps
  /\ nops' = nops + 1
  /\ prev' = cache
  /\ \E hash \in 1 .. MaxEntries, basichash \in BasicHashes, size \in Sizes :
       LET r == dt_dev_pixelpipe_cache_get(cache, mask_display, basichash,
                                           hash, size, TRUE, TRUE)
           found == Lookup(AgeAll(cache), hash, size).c
           marked == {k \in Lines(cache) : found.used[k] = HIT_ERROR_WEIGHT}
       IN  /\ cache' = r.c
           /\ last' = [op |-> "get", hash |-> hash, basichash |-> basichash,
                       size |-> size, important |-> TRUE,
                       avoiding |-> mask_display, ok |-> TRUE, ret |-> r.ret,
                       data |-> r.data, line |-> r.line, hit |-> r.hit,
                       newdata |-> r.newdata, before |-> lastline,
                       since |-> [k \in Lines(cache) |->
                                    Followed(last.since, r, marked, FALSE, k)],
                       clean |-> [k \in Lines(cache) |->
                                    Followed(last.clean, r, marked, TRUE, k)]]
           /\ lastline' = r.line
  /\ UNCHANGED <<mask_display, ctx>>

NextDecay ==
  \/ GetDecay

SpecDecay == InitDecay /\ [][NextDecay]_vars

\* line k can be returned by _get_oldest_used_cacheline(c, 2): it holds a
\* buffer and is older than 2
EvictionCandidate(c, k) == (c.used[k] > 0) /\ (c.data[k] # NULL) /\ (c.used[k] > 2)

\* C33 (as the specification states it): a line that was at -N and that the
\* next N + 3 gets neither hit nor chose has age 3 after them and is a
\* candidate for eviction.
C33_PinDecaysUnlessHitOrChosen ==
  \A k \in Lines(cache) :
     last.since[k] = DecayGets(cache) =>
        cache.used[k] = 3 /\ EvictionCandidate(cache, k)

\* C33 (amended): a line that was at -N and that the next N + 3 gets
\* neither hit nor chose nor found with the hash they asked for and another
\* size has age 3 after them and is a candidate for eviction: the next miss
\* finds a line to take among the lines older than 2 that hold a buffer.
C33_PinDecaysUnlessTouched ==
  \A k \in Lines(cache) :
     last.clean[k] = DecayGets(cache) =>
        /\ cache.used[k] = 3
        /\ EvictionCandidate(cache, k)
        /\ _get_oldest_used_cacheline(cache, 2) >= 0

\* C33 witness: N + 3 gets have left alone a line that was at -N; it holds
\* a buffer and its age is 3.
C33_Witness ==
  \E k \in Lines(cache) :
     /\ last.clean[k] = DecayGets(cache)
     /\ cache.data[k] # NULL
     /\ cache.used[k] = 3

----------------------------------------------------------------------------
(* Unlocked runs: two calls of dt_dev_pixelpipe_cache_get on one cache of  *)
(* MaxEntries lines (more than two) that is empty at first, without a byte *)
(* limit, mask display off, allocations succeeding, for two hashes and    *)
(* lines that are not important.  Nothing orders the                      *)
(* calls: a step is one read or one write of a counter or of a field of a  *)
(* line by one of the calls, and the steps of the two calls interleave in  *)
(* every way.  While the calls run, `last` holds both of them: for each    *)
(* its arguments, its position pc and its local variables; `prev` is the   *)
(* cache they started on.  Reads that change no local variable the model   *)
(* keeps (the pointer passed to dt_free_align, the debug prints) are no     *)
(* steps.                                                                   *)

Callers == {1, 2}

\* (mutant) the ageing loop writes back the value it read
NotOlder(v) == v

\* cache->used[k]++ computes this from the value it read
Older(v) == v + 1

\* the local variables of a call before its first step
RaceLocals(hash, size, important) ==
  [pc |-> "start", hash |-> hash, basichash |-> 1, size |-> size,
   important |-> important, k |-> 0, tmp |-> 0, weight |-> 0, id |-> -1,
   cline |-> -1, data |-> NULL, hit |-> FALSE, newdata |-> FALSE]

InitRace ==
  /\ LET r == dt_dev_pixelpipe_cache_init(MaxEntries, 0, 0, MaxEntries)
     IN  /\ cache = r.c
         /\ prev = r.c
  /\ \E size \in [Callers -> Sizes] :
       last = [op |-> "gets", overlap |-> FALSE, first |-> 0,
               call |-> [t \in Callers |-> RaceLocals(t, size[t], FALSE)]]
  /\ mask_display = FALSE
  /\ lastline = -1
  /\ nops = 0
  /\ ctx = IdleContext

\* the end of one pass of the loop of _get_by_hash
LookNext(c, l) ==
  IF l.k + 1 = c.entries
  THEN [l EXCEPT !.pc = "free_used", !.k = 0, !.weight = 1, !.id = -1]
  ELSE [l EXCEPT !.pc = "look_hash", !.k = @ + 1]

\* the end of one pass of the loop of _get_oldest_free_cacheline, and what
\* _get_cacheline does with its result
FreeNext(c, l) ==
  IF l.k + 1 = c.entries
  THEN IF l.id >= 0
       THEN [l EXCEPT !.pc = "size_read", !.cline = l.id]
       ELSE [l EXCEPT !.pc = "used_used", !.k = 0, !.weight = 0, !.id = -1]
  ELSE [l EXCEPT !.pc = "free_used", !.k = @ + 1]

\* the same for _get_oldest_used_cacheline(cache, 2)
UsedNext(c, l) ==
  IF l.k + 1 = c.entries
  THEN IF l.id >= 0
       THEN [l EXCEPT !.pc = "size_read", !.cline = l.id]
       ELSE [l EXCEPT !.pc = "old_used", !.k = 0, !.weight = 1, !.id = 0]
  ELSE [l EXCEPT !.pc = "used_used", !.k = @ + 1]

\* the same for _get_oldest_cacheline
OldNext(c, l) ==
  IF l.k + 1 = c.entries
  THEN [l EXCEPT !.pc = "size_read", !.cline = l.id]
  ELSE [l EXCEPT !.pc = "old_used", !.k = @ + 1]

\* the steps of dt_dev_pixelpipe_cache_get up to the end of _get_by_hash:
\* the query counter, the ageing loop and the lookup
RaceLookup(c, l) ==
  CASE l.pc = "start" ->
         [c |-> c, l |-> [l EXCEPT !.pc = "q_write", !.tmp = c.queries]]
    [] l.pc = "q_write" ->
         [c |-> [c EXCEPT !.queries = l.tmp + 1],
          l |-> [l EXCEPT !.pc = "age_read", !.k = 0]]
    [] l.pc = "age_read" ->
         [c |-> c, l |-> [l EXCEPT !.pc = "age_write", !.tmp = c.used[l.k]]]
    [] l.pc = "age_write" ->
         [c |-> [c EXCEPT !.used[l.k] = Older(l.tmp)],
          l |-> IF l.k + 1 = c.entries
                THEN [l EXCEPT !.pc = "look_hash", !.k = 0]
                ELSE [l EXCEPT !.pc = "age_read", !.k = @ + 1]]
    [] l.pc = "look_hash" ->
         [c |-> c,
          l |-> IF c.hash[l.k] = l.hash
                THEN [l EXCEPT !.pc = "look_size"]
                ELSE LookNext(c, l)]
    [] l.pc = "look_size" ->
         [c |-> c,
          l |-> IF c.size[l.k] # l.size
                THEN [l EXCEPT !.pc = "mark_basic"]
                ELSE [l EXCEPT !.pc = "hit_data"]]
    [] l.pc = "mark_basic" ->
         [c |-> [c EXCEPT !.basichash[l.k] = INVALID_HASH],
          l |-> [l EXCEPT !.pc = "mark_hash"]]
    [] l.pc = "mark_hash" ->
         [c |-> [c EXCEPT !.hash[l.k] = INVALID_HASH],
          l |-> [l EXCEPT !.pc = "mark_used"]]
    [] l.pc = "mark_used" ->
         [c |-> [c EXCEPT !.used[l.k] = HIT_ERROR_WEIGHT], l |-> LookNext(c, l)]
    [] l.pc = "hit_data" ->
         [c |-> c, l |-> [l EXCEPT !.pc = "hit_used", !.data = c.data[l.k]]]
    [] l.pc = "hit_used" ->
         [c |-> [c EXCEPT !.used[l.k] = -c.entries],
          l |-> [l EXCEPT !.pc = "done", !.hit = TRUE, !.cline = l.k]]

\* the steps of _get_cacheline on a cache of more than two lines
RaceChoose(c, l) ==
  CASE l.pc = "free_used" ->
         [c |-> c,
          l |-> IF c.used[l.k] > l.weight
                THEN [l EXCEPT !.pc = "free_data"]
                ELSE FreeNext(c, l)]
    [] l.pc = "free_data" ->
         [c |-> c,
          l |-> IF c.data[l.k] = NULL
                THEN [l EXCEPT !.pc = "free_weight"]
                ELSE FreeNext(c, l)]
    [] l.pc = "free_weight" ->
         [c |-> c,
          l |-> FreeNext(c, [l EXCEPT !.weight = c.used[l.k], !.id = l.k])]
    [] l.pc = "used_used" ->
         [c |-> c,
          l |-> IF c.used[l.k] > l.weight
                THEN [l EXCEPT !.pc = "used_data"]
                ELSE UsedNext(c, l)]
    [] l.pc = "used_data" ->
         [c |-> c,
          l |-> IF c.data[l.k] # NULL
                THEN [l EXCEPT !.pc = "used_age"]
                ELSE UsedNext(c, l)]
    [] l.pc = "used_age" ->
         [c |-> c,
          l |-> IF c.used[l.k] > 2
                THEN [l EXCEPT !.pc = "used_weight"]
                ELSE UsedNext(c, l)]
    [] l.pc = "used_weight" ->
         [c |-> c,
          l |-> UsedNext(c, [l EXCEPT !.weight = c.used[l.k], !.id = l.k])]
    [] l.pc = "old_used" ->
         [c |-> c,
          l |-> IF c.used[l.k] > l.weight
                THEN [l EXCEPT !.pc = "old_weight"]
                ELSE OldNext(c, l)]
    [] l.pc = "old_weight" ->
         [c |-> c,
          l |-> OldNext(c, [l EXCEPT !.weight = c.used[l.k], !.id = l.k])]

\* the steps of dt_dev_pixelpipe_cache_get on the line it chose
RaceStore(c, l) ==
  CASE l.pc = "size_read" ->
         [c |-> c,
          l |-> IF c.size[l.cline] # l.size
                THEN [l EXCEPT !.pc = "sub_size", !.newdata = TRUE]
                ELSE [l EXCEPT !.pc = "ret_data"]]
    [] l.pc = "sub_size" ->
         [c |-> c, l |-> [l EXCEPT !.pc = "sub_read", !.tmp = c.size[l.cline]]]
    [] l.pc = "sub_read" ->
         [c |-> c, l |-> [l EXCEPT !.pc = "sub_write", !.tmp = c.allmem - l.tmp]]
    [] l.pc = "sub_write" ->
         [c |-> [c EXCEPT !.allmem = l.tmp], l |-> [l EXCEPT !.pc = "alloc"]]
    [] l.pc = "alloc" ->
         [c |-> [c EXCEPT !.data[l.cline] =
                    dt_alloc_align([c EXCEPT !.data[l.cline] = NULL], TRUE)],
          l |-> [l EXCEPT !.pc = "set_size"]]
    [] l.pc = "set_size" ->
         [c |-> [c EXCEPT !.size[l.cline] = l.size],
          l |-> [l EXCEPT !.pc = "add_read"]]
    [] l.pc = "add_read" ->
         [c |-> c, l |-> [l EXCEPT !.pc = "add_write", !.tmp = c.allmem]]
    [] l.pc = "add_write" ->
         [c |-> [c EXCEPT !.allmem = l.tmp + l.size],
          l |-> [l EXCEPT !.pc = "ret_data"]]
    [] l.pc = "ret_data" ->
         [c |-> c, l |-> [l EXCEPT !.pc = "set_basic", !.data = c.data[l.cline]]]
    [] l.pc = "set_basic" ->
         [c |-> [c EXCEPT !.basichash[l.cline] = l.basichash],
          l |-> [l EXCEPT !.pc = "set_hash"]]
    [] l.pc = "set_hash" ->
         [c |-> [c EXCEPT !.hash[l.cline] = l.hash],
          l |-> [l EXCEPT !.pc = "set_used"]]
    [] l.pc = "set_used" ->
         [c |-> [c EXCEPT !.used[l.cline] = MissWeight(c, FALSE, l.important)],
          l |-> [l EXCEPT !.pc = "miss_read"]]
    [] l.pc = "miss_read" ->
         [c |-> c, l |-> [l EXCEPT !.pc = "miss_write", !.tmp = c.misses]]
    [] l.pc = "miss_write" ->
         [c |-> [c EXCEPT !.misses = l.tmp + 1], l |-> [l EXCEPT !.pc = "done"]]

LookupSteps ==
  {"start", "q_write", "age_read", "age_write", "look_hash", "look_size",
   "mark_basic", "mark_hash", "mark_used", "hit_data", "hit_used"}

ChooseSteps ==
  {"free_used", "free_data", "free_weight", "used_used", "used_data",
   "used_age", "used_weight", "old_used", "old_weight"}

\* the call is between its first step and its return
Running(l) == l.pc \notin {"start", "done"}

\* one step of call t
RaceStep(t) ==
  /\ last.op = "gets"
  /\ last.call[t].pc # "done"
  /\ LET l == last.call[t]
         other == last.call[3 - t]
         r == IF l.pc \in LookupSteps THEN RaceLookup(cache, l)
              ELSE IF l.pc \in ChooseSteps THEN RaceChoose(cache, l)
              ELSE RaceStore(cache, l)
     IN  /\ cache' = r.c
         /\ last' = [last EXCEPT
                       !.call[t] = r.l,
                       !.first = IF @ = 0 THEN t ELSE @,
                       !.overlap = @ \/ (l.pc = "start" /\ Running(other))]
  /\ UNCHANGED <<mask_display, prev, lastline, nops, ctx>>

NextRace ==
  \/ \E t \in Callers : RaceStep(t)

SpecRace == InitRace /\ [][NextRace]_vars

\* both calls have returned
BothReturned ==
  last.op = "gets" /\ \A t \in Callers : last.call[t].pc = "done"

\* what the function does with the arguments of call t on cache c when
\* nothing runs beside it
Alone(c, t) ==
  dt_dev_pixelpipe_cache_get(c, FALSE, last.call[t].basichash,
                             last.call[t].hash, last.call[t].size,
                             last.call[t].important, TRUE)

\* C34: two gets for two hashes that run one after the other on a cache of
\* more than two lines return two lines, and leave the cache as the two
\* calls leave it in that order: each finds its own hashes on its line.
\* Only calls that overlap can return one line to both callers.
C34_OneLinePerGetWhenSerial ==
  (BothReturned /\ ~last.overlap) =>
     LET a == Alone(prev, last.first)
         b == Alone(a.c, 3 - last.first)
     IN  /\ last.call[1].cline # last.call[2].cline
         /\ last.call[last.first].cline = a.line
         /\ last.call[3 - last.first].cline = b.line
         /\ cache = b.c
         /\ \A t \in Callers : cache.hash[last.call[t].cline] = last.call[t].hash

\* C34 witness: two gets for two hashes have run without a lock, their
\* steps interleaved; both missed, both chose the same line and returned
\* it as a new buffer, and each has written its hashes on it: the line
\* carries the hash of one of them.
C34_Witness ==
  /\ BothReturned
  /\ last.overlap
  /\ cache.entries > 2
  /\ last.call[1].hash # last.call[2].hash
  /\ ~last.call[1].hit /\ ~last.call[2].hit
  /\ last.call[1].cline = last.call[2].cline
  /\ last.call[1].cline >= 0
  /\ cache.hash[last.call[1].cline] \in {last.call[1].hash, last.call[2].hash}

----------------------------------------------------------------------------
(* Claims about the counters *)

\* C35: whatever calls were made, the byte total is the sum of the sizes of
\* the lines, and a line without a buffer has size 0.
C35_TotalIsSumOfSizes ==
  /\ cache.allmem = SizeSum(cache, Lines(cache))
  /\ \A k \in Lines(cache) : cache.data[k] = NULL => cache.size[k] = 0

\* C35 witness: a call has taken bytes off the total, by a get whose
\* allocation failed or by a checkmem that freed a line, and the cache
\* still holds a buffer.
C35_Witness ==
  /\ IsGet \/ IsCheckmem
  /\ cache.allmem < prev.allmem
  /\ cache.allmem > 0
  /\ \E k \in Lines(cache) : prev.data[k] # NULL /\ cache.data[k] = NULL
  /\ cache.allmem = SizeSum(cache, Lines(cache))

\* the lines of cache c that carry the full hash
Carriers(c, hash) == {k \in Lines(c) : c.hash[k] = hash}

\* C36: with more than two lines, no two lines carry the same full hash
\* unless it is the sentinel; after a miss for an assigned hash the line
\* handed out is the only one that carries it, every other line that
\* carried it having been marked and left with sentinel hashes.
C36_NoHashOnTwoLines ==
  cache.entries > 2 =>
     /\ \A j, k \in Lines(cache) :
          (j # k /\ cache.hash[j] = cache.hash[k]) => cache.hash[j] = INVALID_HASH
     /\ (IsMiss /\ last.hash # INVALID_HASH) =>
          /\ Carriers(cache, last.hash) = {last.line}
          /\ \A k \in Carriers(prev, last.hash) \ {last.line} :
               /\ cache.hash[k] = INVALID_HASH
               /\ cache.basichash[k] = INVALID_HASH
               /\ Marked(cache, k)

\* C36 witness: a miss for an assigned hash on a cache of more than two
\* lines where another line carried the hash with another size; that line
\* is marked and the line handed out is the only carrier.
C36_Witness ==
  /\ IsMiss /\ last.hash # INVALID_HASH
  /\ \E k \in Carriers(prev, last.hash) : k # last.line /\ Marked(cache, k)
  /\ Carriers(cache, last.hash) = {last.line}

\* C37: the miss counter never exceeds the query counter.  On a cache of
\* two lines every get is a miss: it looks up nothing, returns TRUE and
\* counts a miss, also when a line holds the requested hash with the
\* requested size; so the two counters are equal in every state.
C37_MissesWithinQueries ==
  /\ cache.misses <= cache.queries
  /\ cache.entries = 2 =>
       /\ cache.misses = cache.queries
       /\ IsGet =>
            /\ ~last.hit
            /\ last.ret = TRUE
            /\ cache.queries = prev.queries + 1
            /\ cache.misses = prev.misses + 1

\* C37 witness: a get on a cache of two lines for a hash and a size that
\* one of its lines held has returned TRUE and counted a miss; on a cache
\* of more lines the same get is a hit (the counters differ afterwards).
C37_Witness ==
  /\ IsGet
  /\ cache.entries = 2
  /\ last.hash # INVALID_HASH
  /\ \E k \in Lines(prev) : Matched(k) /\ prev.data[k] # NULL
  /\ last.ret = TRUE
  /\ cache.misses = cache.queries
  /\ cache.queries >= 2

----------------------------------------------------------------------------
(* Claims about repeated reclamation *)

\* the number of lines the last checkmem freed, by the counts the function
\* keeps
LinesFreed ==
  LET g == CheckmemGroups(prev) IN g.bad + g.low + g.high

\* C38: a checkmem frees at most N lines, each line at most once, and a
\* second checkmem right after it changes nothing: no field of a line and
\* no counter.
C38_CheckmemOnceIsEnough ==
  IsCheckmem =>
     /\ LinesFreed <= cache.entries
     /\ LinesFreed >= Cardinality({k \in Lines(prev) : Freed(k)})
     /\ dt_dev_pixelpipe_cache_checkmem(cache) = cache

\* C38 witness: a checkmem on a cache over its byte limit has freed an
\* unimportant line and a pinned line and has left a line with a buffer; a
\* second one finds nothing to free.
C38_Witness ==
  /\ IsCheckmem
  /\ cache.entries > 2
  /\ CheckmemGroups(prev).low >= 1
  /\ CheckmemGroups(prev).high >= 1
  /\ \E k \in Lines(cache) : cache.data[k] # NULL
  /\ CheckmemGroups(cache) = [bad |-> 0, low |-> 0, high |-> 0]

----------------------------------------------------------------------------
(* Claims about the get after a flush *)

\* cache c is as dt_dev_pixelpipe_cache_flush leaves a cache: another flush
\* would change nothing
AsFlushed(c) == dt_dev_pixelpipe_cache_flush(c) = c

\* C39 (as the specification states it): with more than two lines, a get
\* on a cache as flush left it is a miss whatever hash and size it asks
\* for, the all-ones hash included: it returns TRUE and no buffer that the
\* cache held before as a hit.
C39_MissAfterFlush ==
  (IsGet /\ cache.entries > 2 /\ AsFlushed(prev)) =>
     ~last.hit /\ last.ret = TRUE

\* C39 (for assigned hashes): with more than two lines, a get for a hash
\* that is not the all-ones value on a cache as flush left it is a miss.
C39_AssignedMissAfterFlush ==
  (IsGet /\ cache.entries > 2 /\ AsFlushed(prev) /\ last.hash # INVALID_HASH) =>
     ~last.hit /\ last.ret = TRUE

\* C39 witness: a get on a cache of more than two lines as flush left it,
\* with a buffer of the requested size on one of its lines, has missed.
C39_Witness ==
  /\ IsGet /\ cache.entries > 2 /\ AsFlushed(prev)
  /\ \E k \in Lines(prev) : prev.data[k] # NULL /\ prev.size[k] = last.size
  /\ ~last.hit
  /\ last.ret = TRUE

=============================================================================
